---------------------------- MODULE Spec2Model ----------------------------
(*
  Supermorse-server (a Mumble/Murmur derivative with HF propagation).

  Two subsystems are modelled here:

   * ChannelListenerManager (src/unnamed/part_001) with VolumeAdjustment
     (src/src/murmur/VolumeAdjustment.cpp).  Every public method takes
     m_rwLock for its whole body, so one method is one atomic action.

   * HFBandSimulation (src/unnamed/part_008): the ionospheric state, the
     pair signal-strength cache and the propagationUpdated signal, with its
     two subscribers, PropagationModule and Server.  HFBandSimulation holds
     no lock (src/src/murmur/modules/HFBandSimulation.h, 273-287), and it is
     handed out raw by PropagationModule::getHFBandSimulation, so its methods
     are modelled statement by statement and interleaved between the thread
     that changes the ionospheric state and a thread that looks strengths up.
*)
EXTENDS Integers, FiniteSets, Sequences, TLC

(***************************************************************************)
(* QHash / QMap helpers: a map is a function whose DOMAIN is its key set.  *)
(***************************************************************************)
EmptyMap == [x \in {} |-> 0]

\* QHash::value(key, defaultValue)
MapValue(m, k, d) == IF k \in DOMAIN m THEN m[k] ELSE d

\* QHash::insert(key, value) / operator[] assignment
MapInsert(m, k, v) == [x \in (DOMAIN m) \cup {k} |-> IF x = k THEN v ELSE m[x]]

\* QHash::remove(key)
MapRemove(m, k) == [x \in (DOMAIN m) \ {k} |-> m[x]]

\* qBound(min, value, max)
qBound(lo, v, hi) == IF v < lo THEN lo ELSE IF v > hi THEN hi ELSE v

(***************************************************************************)
(* State                                                                   *)
(***************************************************************************)
\* ChannelListenerManager
VARIABLES
    m_channelListeners,          \* QHash<const Channel*, QSet<const ServerUser*>>
    m_userListenedChannels,      \* QHash<const ServerUser*, QSet<const Channel*>>
    m_listenerVolumeAdjustments, \* QHash<QPair<user, channel>, VolumeAdjustment>
    emitted                      \* the signals the last manager call emitted

clmVars == <<m_channelListeners, m_userListenedChannels,
             m_listenerVolumeAdjustments, emitted>>

\* HFBandSimulation, its subscribers and the two threads that use it
VARIABLES
    variant,               \* which copy of PropagationModule.cpp is linked
    m_solarFluxIndex,
    m_kIndex,
    m_season,
    m_autoTimeEnabled,
    m_signalStrengthCache, \* QHash<QPair<QString, QString>, float>
    upc,                   \* the statement the state-changing thread is at
    uop,                   \* the method it is in
    unannounced,           \* a change was stored and not yet signalled to all
    notified,              \* the subscribers whose slot ran since that change
    wpc,                   \* the statement the querying thread is at
    wop,                   \* the query it runs: <<method, user1, user2>>
    wStrength,             \* its local "strength" / "propagation"
    wStale,                \* the state it read has been changed since
    wResult                \* what its last finished query returned

hfVars == <<variant, m_solarFluxIndex, m_kIndex, m_season, m_autoTimeEnabled,
            m_signalStrengthCache, upc, uop, unannounced, notified,
            wpc, wop, wStrength, wStale, wResult>>

\* UserDataModule
VARIABLES
    m_userNameCache,       \* QHash<int, QString>: user id to name
    m_userIDCache,         \* QHash<QString, int>: name to user id
    m_userPropertiesCache, \* QHash<int, QMap<int, QString>>
    udmEmitted,            \* the signals the last module call emitted
    udmResult              \* the last call and what it returned

udmVars == <<m_userNameCache, m_userIDCache, m_userPropertiesCache,
             udmEmitted, udmResult>>

\* The last call of a read-only HFBandSimulation method and what it returned
VARIABLES tableResult

tableVars == <<tableResult>>

\* ModuleManager, its ThreadPool and the thread the manager lives in
VARIABLES
    m_modules,             \* QHash<QString, IServerModule*>: the names registered
    m_tasks,               \* ThreadPool: std::queue of tasks
    workerTask,            \* the task each worker thread has taken and is running
    callerPc,              \* where each calling thread is: "idle", "emit", "wait"
    call,                  \* the ModuleManager method each calling thread is in
    futures,               \* the futures a thread or a task waits for
    eventQueue,            \* queued slot invocations posted to the manager's thread
    handling,              \* the slot invocation the manager's thread is inside
    received,              \* per module: the events its slot was invoked with
    executed,              \* per module: the executeOnAllModules calls that ran func on it
    threw,                 \* the tasks that ended with an exception
    history,               \* per call: method, modules of the foreach, returned,
                           \* the calls that had returned when it was made
    nextCall               \* the number the next call gets

busVars == <<m_modules, m_tasks, workerTask, callerPc, call, futures, eventQueue,
             handling, received, executed, threw, history, nextCall>>

\* ThreadPool: the stop flag, the counter, and what became of the tasks
VARIABLES
    m_stop,                \* std::atomic<bool>
    m_activeThreads,       \* std::atomic<int>
    enqueued,              \* the tasks enqueue has accepted: <<module, id>>
    completed,             \* the tasks whose body has ended, by return or throw
    waitForDoneCall,       \* per thread: called, tasks enqueued before, returned
    nextTask               \* the number the next task of a direct enqueue gets

poolVars == <<m_stop, m_activeThreads, enqueued, completed, waitForDoneCall, nextTask>>

\* Channel::qsPermLinks of every channel in Server::qhChannels
VARIABLES qsPermLinks

channelVars == <<qsPermLinks>>

\* DBWrapper: the database behind m_db and the threads calling the wrapper
VARIABLES
    committed,             \* the tables as committed: user_properties rows, textures rows
    uncommitted,           \* the tables as the connection m_db sees them
    inTransaction,         \* m_db has an open transaction
    dbPc,                  \* the statement each calling thread is at
    dbCall,                \* the DBWrapper method it is in, or has returned from
    dbCalls                \* the number of calls it has made

dbVars == <<committed, uncommitted, inTransaction, dbPc, dbCall, dbCalls>>

\* Mumble::Protocol: the packet TCPMessageHandler has framed, what the header
\* decoder made of a buffer, and the state of a UDPDecoder
VARIABLES
    sent,                  \* the type and message given to encodeMessage
    packet,                \* the QByteArray it returned, as chars
    header,                \* decodeMessageHeader: the buffer, the result, type, length
    udpBuffer,             \* the buffer given to UDPDecoder::decode
    udpResult,             \* what decode returned
    m_valid,               \* UDPDecoder::m_valid
    m_type                 \* UDPDecoder::m_type

protocolVars == <<sent, packet, header, udpBuffer, udpResult, m_valid, m_type>>

\* HFBandSimulation: a grid locator made from coordinates and read back
VARIABLES
    coordinates,           \* latitude, longitude, precision given to coordinatesToGrid
    grid,                  \* the QString it returned, as character codes
    decoded                \* what gridToCoordinates wrote to latitude and longitude

gridVars == <<coordinates, grid, decoded>>

\* UserStatisticsModule: a statistics file handed in and the user-stats directory
VARIABLES
    fileData,              \* the content given to processUserStatsFile: header and rows
    written,               \* the file in the user's directory, if one was written
    statsResult            \* what processUserStatsFile returned

statsVars == <<fileData, written, statsResult>>

\* modules/PropagationModule: its mutex and the threads inside its methods
VARIABLES
    mutexOwner,            \* the thread that holds PropagationModule::m_mutex, or "none"
    frames                 \* per thread: the methods of the module it is inside, innermost last

moduleVars == <<mutexOwner, frames>>

\* Calls of the manager made from inside a task of the pool, and calls of
\* enqueue that ended with the exception
VARIABLES
    nestedCalls,           \* the tasks whose function has called executeOnModule
    rejected               \* the tasks for which enqueue threw std::runtime_error

nestVars == <<nestedCalls, rejected>>

\* The reader/writer lock of ChannelListenerManager and the calls of one thread
VARIABLES
    m_rwLock,              \* QReadWriteLock: "unlocked", "read" or "write"
    clmStack               \* the manager methods the thread is inside, innermost last

lockVars == <<m_rwLock, clmStack>>

\* PropagationModule::m_updateTimer
VARIABLES
    timerDue,              \* the interval has elapsed and timeout() is not yet emitted
    duringUpdate           \* it elapsed while an update was in progress

timerVars == <<timerDue, duringUpdate>>

\* ModuleManager: the registry with the module objects
VARIABLES
    registry,              \* m_modules as QHash<QString, IServerModule*>: name to object
    registered,            \* the names in the order in which they were registered
    registerCall,          \* the last call of registerModule and what it did
    shutdownOrder          \* the modules the last shutdownAllModules shut down, in order

regVars == <<registry, registered, registerCall, shutdownOrder>>

vars == <<clmVars, hfVars, udmVars, tableVars, busVars, poolVars, channelVars, dbVars, protocolVars, gridVars, statsVars, moduleVars, nestVars, lockVars, timerVars, regVars>>

\* The state outside each component, which its methods leave alone.
notClm == <<hfVars, udmVars, tableVars, busVars, poolVars, channelVars, dbVars, protocolVars, gridVars, statsVars, moduleVars, nestVars, lockVars, timerVars, regVars>>
notHf == <<clmVars, udmVars, tableVars, busVars, poolVars, channelVars, dbVars, protocolVars, gridVars, statsVars, moduleVars, nestVars, lockVars, timerVars, regVars>>
notUdm == <<clmVars, hfVars, tableVars, busVars, poolVars, channelVars, dbVars, protocolVars, gridVars, statsVars, moduleVars, nestVars, lockVars, timerVars, regVars>>
notTable == <<clmVars, hfVars, udmVars, busVars, poolVars, channelVars, dbVars, protocolVars, gridVars, statsVars, moduleVars, nestVars, lockVars, timerVars, regVars>>
notBus == <<clmVars, hfVars, udmVars, tableVars, poolVars, channelVars, dbVars, protocolVars, gridVars, statsVars, moduleVars, nestVars, lockVars, timerVars, regVars>>

\* The state outside the module manager and outside its pool: the frame of
\* the steps that go through the ThreadPool.
notBusNorPool == <<clmVars, hfVars, udmVars, tableVars, channelVars, dbVars, protocolVars, gridVars, statsVars, moduleVars, nestVars, lockVars, timerVars, regVars>>

\* The state outside the propagation engine and outside the channels: the
\* frame of the slots that end in updateChannelLinks.
notHfNorChannels == <<clmVars, udmVars, tableVars, busVars, poolVars, dbVars, protocolVars, gridVars, statsVars, moduleVars, nestVars, lockVars, timerVars, regVars>>
notDb == <<clmVars, hfVars, udmVars, tableVars, busVars, poolVars, channelVars, protocolVars, gridVars, statsVars, moduleVars, nestVars, lockVars, timerVars, regVars>>
notReg == <<clmVars, hfVars, udmVars, tableVars, busVars, poolVars, channelVars, dbVars, protocolVars, gridVars, statsVars, moduleVars, nestVars, lockVars, timerVars>>
notModuleNorTimer == <<clmVars, hfVars, udmVars, tableVars, busVars, poolVars, channelVars, dbVars, protocolVars, gridVars, statsVars, nestVars, lockVars, regVars>>
notTimer == <<clmVars, hfVars, udmVars, tableVars, busVars, poolVars, channelVars, dbVars, protocolVars, gridVars, statsVars, moduleVars, nestVars, lockVars, regVars>>
notLock == <<clmVars, hfVars, udmVars, tableVars, busVars, poolVars, channelVars, dbVars, protocolVars, gridVars, statsVars, moduleVars, nestVars, timerVars, regVars>>
notBusPoolNorNest == <<clmVars, hfVars, udmVars, tableVars, channelVars, dbVars, protocolVars, gridVars, statsVars, moduleVars, lockVars, timerVars, regVars>>
notNest == <<clmVars, hfVars, udmVars, tableVars, busVars, poolVars, channelVars, dbVars, protocolVars, gridVars, statsVars, moduleVars, lockVars, timerVars, regVars>>
notModule == <<clmVars, hfVars, udmVars, tableVars, busVars, poolVars, channelVars, dbVars, protocolVars, gridVars, statsVars, nestVars, lockVars, timerVars, regVars>>
notStats == <<clmVars, hfVars, udmVars, tableVars, busVars, poolVars, channelVars, dbVars, protocolVars, gridVars, moduleVars, nestVars, lockVars, timerVars, regVars>>
notGrid == <<clmVars, hfVars, udmVars, tableVars, busVars, poolVars, channelVars, dbVars, protocolVars, statsVars, moduleVars, nestVars, lockVars, timerVars, regVars>>
notProtocol == <<clmVars, hfVars, udmVars, tableVars, busVars, poolVars, channelVars, dbVars, gridVars, statsVars, moduleVars, nestVars, lockVars, timerVars, regVars>>

(***************************************************************************)
(* ChannelListenerManager and VolumeAdjustment                             *)
(***************************************************************************)
Users == {"u1", "u2"}
Channels == {"c1", "c2"}

\* VolumeAdjustment.cpp:15-17 (floats; only whole values are used here)
MIN_ADJUSTMENT_FACTOR == 0
MAX_ADJUSTMENT_FACTOR == 10
DEFAULT_ADJUSTMENT_FACTOR == 1

\* The factors callers pass in: below, inside and above the allowed range.
FactorInputs == {-1, 3, 11}

\* VolumeAdjustment::VolumeAdjustment(AdjustmentType type = Normal)
VolumeAdjustment(type) ==
    [type |-> type, factors |-> EmptyMap, defaultFactor |-> DEFAULT_ADJUSTMENT_FACTOR]

\* VolumeAdjustment::setType
setType(adj, type) == [adj EXCEPT !.type = type]

\* VolumeAdjustment::getAdjustmentFactor(user); "null" is the null pointer
getAdjustmentFactor(adj, user) ==
    IF user = "null" THEN adj.defaultFactor
    ELSE MapValue(adj.factors, user, adj.defaultFactor)

\* VolumeAdjustment::setAdjustmentFactor(user, factor)
setAdjustmentFactor(adj, user, factor) ==
    IF user = "null"
    THEN [adj EXCEPT !.defaultFactor =
              qBound(MIN_ADJUSTMENT_FACTOR, factor, MAX_ADJUSTMENT_FACTOR)]
    ELSE [adj EXCEPT !.factors =
              MapInsert(@, user, qBound(MIN_ADJUSTMENT_FACTOR, factor, MAX_ADJUSTMENT_FACTOR))]

\* The VolumeAdjustment objects a caller hands to setListenerVolumeAdjustment:
\* built by the constructor and at most one setAdjustmentFactor call.
AdjustmentInputs(user) ==
    {VolumeAdjustment("Logarithmic")}
    \cup {setAdjustmentFactor(VolumeAdjustment("Normal"), user, f) : f \in FactorInputs}

\* ChannelListenerManager::ChannelListenerManager
ClmInit ==
    /\ m_channelListeners = EmptyMap
    /\ m_userListenedChannels = EmptyMap
    /\ m_listenerVolumeAdjustments = EmptyMap
    /\ emitted = {}

\* ChannelListenerManager::isListening
isListening(user, channel) ==
    /\ channel \in DOMAIN m_channelListeners
    /\ user \in m_channelListeners[channel]

\* ChannelListenerManager::getListeners / getListenedChannels
getListeners(channel) == MapValue(m_channelListeners, channel, {})
getListenedChannels(user) == MapValue(m_userListenedChannels, user, {})

\* ChannelListenerManager::getListenerVolumeAdjustment
getListenerVolumeAdjustment(user, channel) ==
    MapValue(m_listenerVolumeAdjustments, <<user, channel>>, VolumeAdjustment("Normal"))

\* The mutated addListener: the user-to-channels index is not updated.
addListenerOneIndex(user, channel) ==
    /\ m_channelListeners' =
          MapInsert(m_channelListeners, channel, getListeners(channel) \cup {user})
    /\ m_listenerVolumeAdjustments' =
          IF <<user, channel>> \in DOMAIN m_listenerVolumeAdjustments
          THEN m_listenerVolumeAdjustments
          ELSE MapInsert(m_listenerVolumeAdjustments, <<user, channel>>,
                         VolumeAdjustment("Normal"))
    /\ emitted' = {<<"listenerAdded", user, channel>>}
    /\ UNCHANGED <<m_userListenedChannels, notClm>>

\* ChannelListenerManager::addListener
addListener(user, channel) ==
    /\ m_channelListeners' =
          MapInsert(m_channelListeners, channel, getListeners(channel) \cup {user})
    /\ m_userListenedChannels' =
          MapInsert(m_userListenedChannels, user, getListenedChannels(user) \cup {channel})
    /\ m_listenerVolumeAdjustments' =
          IF <<user, channel>> \in DOMAIN m_listenerVolumeAdjustments
          THEN m_listenerVolumeAdjustments
          ELSE MapInsert(m_listenerVolumeAdjustments, <<user, channel>>,
                         VolumeAdjustment("Normal"))
    /\ emitted' = {<<"listenerAdded", user, channel>>}
    /\ UNCHANGED notClm

\* ChannelListenerManager::setListenerVolumeAdjustment
setListenerVolumeAdjustment(user, channel, volumeAdjustment) ==
    /\ m_listenerVolumeAdjustments' =
          MapInsert(m_listenerVolumeAdjustments, <<user, channel>>, volumeAdjustment)
    /\ emitted' = {<<"listenerVolumeAdjustmentChanged", user, channel>>}
    /\ UNCHANGED <<m_channelListeners, m_userListenedChannels, notClm>>

\* The mutated disableListener: the factor is set on the default (null user)
\* instead of on the listener.
disableListenerDefaultOnly(user, channel) ==
    /\ m_listenerVolumeAdjustments' =
          MapInsert(m_listenerVolumeAdjustments, <<user, channel>>,
                    setAdjustmentFactor(
                        setType(getListenerVolumeAdjustment(user, channel), "Multiplicative"),
                        "null", 0))
    /\ emitted' = {<<"listenerVolumeAdjustmentChanged", user, channel>>}
    /\ UNCHANGED <<m_channelListeners, m_userListenedChannels, notClm>>

\* ChannelListenerManager::disableListener
disableListener(user, channel) ==
    /\ m_listenerVolumeAdjustments' =
          MapInsert(m_listenerVolumeAdjustments, <<user, channel>>,
                    setAdjustmentFactor(
                        setType(getListenerVolumeAdjustment(user, channel), "Multiplicative"),
                        user, 0))
    /\ emitted' = {<<"listenerVolumeAdjustmentChanged", user, channel>>}
    /\ UNCHANGED <<m_channelListeners, m_userListenedChannels, notClm>>

\* set.remove(x) on the set stored under key k (operator[] creates the entry),
\* followed by "if the set is empty, remove the entry"
RemoveFromEntry(m, k, x) ==
    IF MapValue(m, k, {}) \ {x} = {}
    THEN MapRemove(m, k)
    ELSE MapInsert(m, k, MapValue(m, k, {}) \ {x})

\* ChannelListenerManager::removeListener
removeListener(user, channel) ==
    /\ m_channelListeners' = RemoveFromEntry(m_channelListeners, channel, user)
    /\ m_userListenedChannels' = RemoveFromEntry(m_userListenedChannels, user, channel)
    /\ m_listenerVolumeAdjustments' = MapRemove(m_listenerVolumeAdjustments, <<user, channel>>)
    /\ emitted' = {<<"listenerRemoved", user, channel>>}
    /\ UNCHANGED notClm

\* ChannelListenerManager::clearListeners
clearListeners(channel) ==
    LET listeners == getListeners(channel)
        keep == {u \in (DOMAIN m_userListenedChannels) \cup listeners :
                    \/ u \notin listeners
                    \/ getListenedChannels(u) \ {channel} # {}}
    IN  /\ m_userListenedChannels' =
              [u \in keep |-> IF u \in listeners
                              THEN getListenedChannels(u) \ {channel}
                              ELSE m_userListenedChannels[u]]
        /\ m_listenerVolumeAdjustments' =
              [k \in {p \in DOMAIN m_listenerVolumeAdjustments :
                         ~(p[1] \in listeners /\ p[2] = channel)}
                  |-> m_listenerVolumeAdjustments[k]]
        /\ m_channelListeners' = MapRemove(m_channelListeners, channel)
        /\ emitted' = {<<"listenerRemoved", u, channel>> : u \in listeners}
        /\ UNCHANGED notClm

\* ChannelListenerManager::clearListenedChannels
clearListenedChannels(user) ==
    LET channels == getListenedChannels(user)
        keep == {c \in (DOMAIN m_channelListeners) \cup channels :
                    \/ c \notin channels
                    \/ getListeners(c) \ {user} # {}}
    IN  /\ m_channelListeners' =
              [c \in keep |-> IF c \in channels
                              THEN getListeners(c) \ {user}
                              ELSE m_channelListeners[c]]
        /\ m_listenerVolumeAdjustments' =
              [k \in {p \in DOMAIN m_listenerVolumeAdjustments :
                         ~(p[1] = user /\ p[2] \in channels)}
                  |-> m_listenerVolumeAdjustments[k]]
        /\ m_userListenedChannels' = MapRemove(m_userListenedChannels, user)
        /\ emitted' = {<<"listenerRemoved", user, c>> : c \in channels}
        /\ UNCHANGED notClm

\* ChannelListenerManager::clear
clear ==
    /\ m_channelListeners' = EmptyMap
    /\ m_userListenedChannels' = EmptyMap
    /\ m_listenerVolumeAdjustments' = EmptyMap
    /\ emitted' = {}
    /\ UNCHANGED notClm

ClmNext ==
    \/ \E u \in Users, c \in Channels : addListener(u, c)
    \/ \E u \in Users, c \in Channels :
          \E va \in AdjustmentInputs(u) : setListenerVolumeAdjustment(u, c, va)
    \/ \E u \in Users, c \in Channels : disableListener(u, c)
    \/ \E u \in Users, c \in Channels : removeListener(u, c)
    \/ \E c \in Channels : clearListeners(c)
    \/ \E u \in Users : clearListenedChannels(u)
    \/ clear


(***************************************************************************)
(* ChannelListenerManager: m_rwLock and the emission of signals             *)
(***************************************************************************)

\* The methods that take a QWriteLocker, call locker.unlock() and then emit
EmittingMethods == {"addListener", "setListenerVolumeAdjustment", "disableListener",
                    "removeListener", "clearListeners", "clearListenedChannels"}

\* The methods whose locker is released by its destructor, at the return
WriteMethods == EmittingMethods \cup {"clear"}
ReadMethods == {"getListenerVolumeAdjustment", "isListening", "getListeners",
                "getListenedChannels"}

\* The deepest nesting of manager calls followed: a call and a call made by
\* a slot that is connected to one of its signals
MaxDepth == 2

\* The thread is outside the manager and nobody holds the lock
LockInit ==
    /\ m_rwLock = "unlocked"
    /\ clmStack = <<>>

\* The innermost call
innermost == clmStack[Len(clmStack)]

\* The calls with the innermost replaced
setInnermost(frame) == [clmStack EXCEPT ![Len(clmStack)] = frame]

\* A method of the manager is called by code outside the manager: control
\* reaches the construction of its locker.
callManager(method) ==
    /\ clmStack = <<>>
    /\ clmStack' = <<[method |-> method, pc |-> "lock", holds |-> FALSE, signals |-> 0]>>
    /\ UNCHANGED <<m_rwLock, notLock>>

\* QWriteLocker locker(&m_rwLock) / QReadLocker locker(&m_rwLock): the
\* constructor returns when the lock, which is not recursive, is free.
lockForMethod ==
    /\ clmStack # <<>>
    /\ innermost.pc = "lock"
    /\ m_rwLock = "unlocked"
    /\ m_rwLock' = IF innermost.method \in WriteMethods THEN "write" ELSE "read"
    /\ clmStack' = setInnermost([innermost EXCEPT !.pc = "locked", !.holds = TRUE])
    /\ UNCHANGED notLock

\* A method that starts to emit with its locker still locked
emitBeforeUnlock(n) ==
    /\ clmStack # <<>>
    /\ innermost.pc = "locked"
    /\ innermost.method \in EmittingMethods
    /\ innermost.method \notin {"clearListeners", "clearListenedChannels"} => n = 1
    /\ clmStack' = setInnermost([innermost EXCEPT !.pc = "emit", !.signals = n])
    /\ UNCHANGED <<m_rwLock, notLock>>

\* The body of an emitting method up to locker.unlock(), lines 36, 49, 71,
\* 101, 148 and 176: the lock is released and the signals are still to be
\* emitted, one for most methods and one per entry of the copied set (n) for
\* clearListeners and clearListenedChannels.
locker_unlock(n) ==
    /\ clmStack # <<>>
    /\ innermost.pc = "locked"
    /\ innermost.method \in EmittingMethods
    /\ innermost.method \notin {"clearListeners", "clearListenedChannels"} => n = 1
    /\ m_rwLock' = "unlocked"
    /\ clmStack' = setInnermost([innermost EXCEPT !.pc = "emit", !.holds = FALSE, !.signals = n])
    /\ UNCHANGED notLock

\* emit listenerAdded / listenerRemoved / listenerVolumeAdjustmentChanged to
\* a directly connected slot that returns without calling the manager
emitSignal ==
    /\ clmStack # <<>>
    /\ innermost.pc = "emit"
    /\ innermost.signals > 0
    /\ clmStack' = setInnermost([innermost EXCEPT !.signals = @ - 1])
    /\ UNCHANGED <<m_rwLock, notLock>>

\* emit to a directly connected slot that calls a method of the manager: the
\* emit returns when that call has returned.
emitSignalWithCallback(method) ==
    /\ clmStack # <<>>
    /\ Len(clmStack) < MaxDepth
    /\ innermost.pc = "emit"
    /\ innermost.signals > 0
    /\ clmStack' = Append(setInnermost([innermost EXCEPT !.signals = @ - 1]),
                          [method |-> method, pc |-> "lock", holds |-> FALSE, signals |-> 0])
    /\ UNCHANGED <<m_rwLock, notLock>>

\* The method returns, after its last signal or, for a method that emits
\* nothing, after its body: the destructor of the locker releases the lock
\* if the locker still holds it.
returnFromMethod ==
    /\ clmStack # <<>>
    /\ \/ innermost.pc = "emit" /\ innermost.signals = 0
       \/ innermost.pc = "locked" /\ innermost.method \notin EmittingMethods
    /\ m_rwLock' = IF innermost.holds THEN "unlocked" ELSE m_rwLock
    /\ clmStack' = SubSeq(clmStack, 1, Len(clmStack) - 1)
    /\ UNCHANGED notLock

LockNext ==
    \/ \E method \in WriteMethods \cup ReadMethods : callManager(method)
    \/ lockForMethod
    \/ \E n \in 0..Cardinality(Users) : locker_unlock(n)
    \/ emitSignal
    \/ \E method \in WriteMethods \cup ReadMethods : emitSignalWithCallback(method)
    \/ returnFromMethod

(***************************************************************************)
(* Channels: permanent links                                               *)
(***************************************************************************)

\* [channels] and [channel_links] of config/mumble-server.ini, the first
\* three band channels: 1=2, 2=1,3, 3=2,4
ChannelIds == {1, 2, 3}
ConfiguredLinks == [id \in ChannelIds |-> CASE id = 1 -> {2} [] id = 2 -> {1, 3} [] OTHER -> {2, 4}]

\* Server::setupChannels: a Channel per key of [channels], constructed with
\* no links; then per key of [channel_links] the listed channels that exist.
setupChannels(channels, channel_links) ==
    [id \in channels |-> {linked \in channel_links[id] : linked \in channels}]

ChannelInit == qsPermLinks = setupChannels(ChannelIds, ConfiguredLinks)

\* updateChannelLinks (PropagationModule and Server): the bands the logged
\* line names, from the SFI and the K-index.
openBands ==
    LET bySfi == IF m_solarFluxIndex > 150 THEN <<10, 12, 15>>
                 ELSE IF m_solarFluxIndex > 100 THEN <<15, 17, 20>>
                 ELSE <<40, 80, 160>>
    IN  IF m_kIndex > 5 THEN SelectSeq(bySfi, LAMBDA band : band \notin {10, 12, 15})
        ELSE bySfi

\* An updateChannelLinks that relinks the channels by the open bands: no
\* links while the 10 m band is closed.
updateChannelLinksRelinking ==
    qsPermLinks' = IF \E i \in DOMAIN openBands : openBands[i] = 10 THEN qsPermLinks
                   ELSE [id \in DOMAIN qsPermLinks |-> {}]

\* updateChannelLinks: computes the open bands and logs them; no channel is
\* written ("In a real implementation, this would update the channel links").
updateChannelLinks == qsPermLinks' = qsPermLinks

(***************************************************************************)
(* HFBandSimulation: ionospheric state, pair cache, propagationUpdated     *)
(***************************************************************************)

\* ServerUser::qsMetadata["maidenheadgrid"] of the sessions a, b, n1 and n2
\* of the model; "" is a user without a grid locator.
maidenheadgrid(user) ==
    CASE user = "a" -> "JO59jw"
      [] user = "b" -> "FN31pr"
      [] OTHER -> ""

\* The pairs the propagation queries are made for.
SessionPairs == {<<"a", "b">>, <<"b", "a">>, <<"n1", "n2">>, <<"a", "n1">>}

\* HFBandSimulation::calculateDistance in whole km, for the grids of the
\* model: gridToCoordinates gives (60.4167, 11.75) and (42.2083, -71.75),
\* the haversine formula on a 6371 km sphere gives 5701.02 km.
calculateDistance(grid1, grid2) == IF grid1 = grid2 THEN 0 ELSE 5701

\* The values the setters are called with and the months of the wall clock.
SfiInputs == {120, 200}
KInputs == {0, 3}
SeasonInputs == {0, 2}
MonthInputs == {1, 7}

\* QRandomGenerator::generateDouble(), in thousandths of [0, 1)
RandomInputs == {0, 999}

\* (isDaytime1, isDaytime2): the solar zenith angle at each end is below 90
DaytimeInputs == {<<TRUE, TRUE>>, <<TRUE, FALSE>>, <<FALSE, FALSE>>}

\* HFBandSimulation::updateSeason: the season of a month
seasonOfMonth(month) ==
    CASE month \in {12, 1, 2} -> 0
      [] month \in {3, 4, 5} -> 1
      [] month \in {6, 7, 8} -> 2
      [] month \in {9, 10, 11} -> 3
      [] OTHER -> 0

\* The six factors of calculateSignalStrength (lines 116-170), each in
\* thousandths; the strength itself is in units of 1/10000, rounded down
\* after every multiplication.
timeOfDayFactor(isDaytime1, isDaytime2) ==
    IF isDaytime1 /\ isDaytime2 THEN 1000
    ELSE IF ~isDaytime1 /\ ~isDaytime2 THEN 800
    ELSE 500

solarActivityFactor(sfi) == qBound(100, sfi * 5, 1000)

geomagneticFactor(kIndex) == qBound(100, 1000 - (kIndex * 1000) \div 9, 1000)

seasonFactor(season) ==
    CASE season = 0 -> 700
      [] season = 1 -> 900
      [] season = 2 -> 1000
      [] season = 3 -> 800
      [] OTHER -> 800

signalStrength(distance, isDaytime1, isDaytime2, sfi, kIndex, season, random) ==
    LET distanceFactor == 10000000 \div (1000 + distance)
        randomFactor == 800 + (200 * random) \div 1000
        s1 == (distanceFactor * timeOfDayFactor(isDaytime1, isDaytime2)) \div 1000
        s2 == (s1 * solarActivityFactor(sfi)) \div 1000
        s3 == (s2 * geomagneticFactor(kIndex)) \div 1000
        s4 == (s3 * seasonFactor(season)) \div 1000
        s5 == (s4 * randomFactor) \div 1000
    IN  qBound(0, s5, 10000)

\* "propagation >= 0.05f" (canCommunicate) and "signalQuality < 0.05f"
\* (updateAudioRouting), in units of 1/10000
canCommunicateThresholdLoose(propagation) == propagation >= 50

canCommunicateThreshold(propagation) == propagation >= 500

blockAudio(signalQuality) == signalQuality < 500

\* The objects connected to HFBandSimulation::propagationUpdated, in the
\* order of their connect() calls.
Subscribers == {"PropagationModule", "Server"}

NoQuery == <<"none", "", "">>
NoResult == [method |-> "none", user1 |-> "", user2 |-> "", strength |-> 0,
             value |-> FALSE, signalQualityChanged |-> FALSE]

\* HFBandSimulation::HFBandSimulation (its updateSeason() call sets the season
\* of the month the server starts in), then PropagationModule's and Server's
\* connect() calls.
HfInit ==
    /\ variant \in {"murmur", "modules"}
    /\ m_solarFluxIndex = 120
    /\ m_kIndex = 3
    /\ m_season \in {seasonOfMonth(month) : month \in MonthInputs}
    /\ m_autoTimeEnabled = TRUE
    /\ m_signalStrengthCache = EmptyMap
    /\ upc = "idle"
    /\ uop = "none"
    /\ unannounced = FALSE
    /\ notified = {}
    /\ wpc = "idle"
    /\ wop = NoQuery
    /\ wStrength = 0
    /\ wStale = FALSE
    /\ wResult = NoResult

workerVars == <<wpc, wop, wStrength, wResult>>
ionoVars == <<m_solarFluxIndex, m_kIndex, m_season>>

\* What storing a new SFI, K-index or season does to the bookkeeping of the
\* model: every cached entry and every strength computed but not yet cached
\* now stems from an earlier ionospheric state.
ChangeStored ==
    /\ m_signalStrengthCache' =
          [k \in DOMAIN m_signalStrengthCache |->
              [m_signalStrengthCache[k] EXCEPT !.stale = TRUE, !.old = TRUE]]
    /\ wStale' = (wpc \in {"insert1", "insert2"})
    /\ unannounced' = TRUE
    /\ notified' = {}
    /\ upc' = "clear"

\* HFBandSimulation::setSolarFluxIndex, lines 283-284
setSolarFluxIndex(sfi) ==
    /\ upc = "idle"
    /\ m_solarFluxIndex # sfi
    /\ m_solarFluxIndex' = sfi
    /\ ChangeStored
    /\ uop' = "set"
    /\ UNCHANGED <<notHf, variant, m_kIndex, m_season, m_autoTimeEnabled, workerVars>>

\* HFBandSimulation::setKIndex, lines 295-296
setKIndex(kIndex) ==
    /\ upc = "idle"
    /\ m_kIndex # kIndex
    /\ m_kIndex' = kIndex
    /\ ChangeStored
    /\ uop' = "set"
    /\ UNCHANGED <<notHf, variant, m_solarFluxIndex, m_season, m_autoTimeEnabled, workerVars>>

\* HFBandSimulation::setSeason, lines 307-308
setSeason(season) ==
    /\ upc = "idle"
    /\ m_season # season
    /\ m_season' = season
    /\ ChangeStored
    /\ uop' = "set"
    /\ UNCHANGED <<notHf, variant, m_solarFluxIndex, m_kIndex, m_autoTimeEnabled, workerVars>>

\* HFBandSimulation::setAutoTimeEnabled: updateSeason() when enabled
setAutoTimeEnabled(enabled, month) ==
    /\ upc = "idle"
    /\ m_autoTimeEnabled' = enabled
    /\ IF enabled /\ m_season # seasonOfMonth(month)
       THEN /\ m_season' = seasonOfMonth(month)
            /\ ChangeStored
            /\ uop' = "set"
       ELSE /\ enabled # m_autoTimeEnabled
            /\ UNCHANGED <<m_season, m_signalStrengthCache, wStale, unannounced,
                           notified, upc, uop>>
    /\ UNCHANGED <<notHf, variant, m_solarFluxIndex, m_kIndex, workerVars>>

\* HFBandSimulation::updatePropagation, lines 483-491: updateSeason() if
\* auto time is on (setSeason stores, clears and emits when the season
\* changed); the clear and the emit of lines 494-497 follow in any case.
updatePropagation(month) ==
    /\ upc = "idle"
    /\ IF m_autoTimeEnabled /\ m_season # seasonOfMonth(month)
       THEN /\ m_season' = seasonOfMonth(month)
            /\ ChangeStored
            /\ uop' = "updateSeason"
       ELSE /\ upc' = "clear"
            /\ uop' = "update"
            /\ UNCHANGED <<m_season, m_signalStrengthCache, wStale, unannounced, notified>>
    /\ UNCHANGED <<notHf, variant, m_solarFluxIndex, m_kIndex, m_autoTimeEnabled, workerVars>>

\* m_signalStrengthCache.clear(), lines 287, 299, 311 and 494
clearCache ==
    /\ upc = "clear"
    /\ m_signalStrengthCache' = EmptyMap
    /\ upc' = "emitModule"
    /\ UNCHANGED <<notHf, variant, ionoVars, m_autoTimeEnabled, uop, unannounced, notified,
                   wStale, workerVars>>

\* emit propagationUpdated(), first slot: PropagationModule::onPropagationUpdated.
\* The copy in src/murmur/ takes no lock.  The copy in src/murmur/modules/
\* takes m_mutex (line 436) and calls updateChannelLinks (line 447), which
\* takes the same non-recursive QMutex again (line 342): the thread stops
\* there and never reaches the next slot.  The copy in src/murmur/ ends with
\* updateChannelLinks (line 286).
emitToModule ==
    /\ upc = "emitModule"
    /\ notified' = notified \cup {"PropagationModule"}
    /\ upc' = IF variant = "modules" THEN "blocked" ELSE "emitServer"
    /\ IF variant = "modules" THEN UNCHANGED channelVars ELSE updateChannelLinks
    /\ UNCHANGED <<notHfNorChannels, variant, ionoVars, m_autoTimeEnabled, m_signalStrengthCache, uop,
                   unannounced, wStale, workerVars>>

\* emit propagationUpdated(), second slot: Server::onPropagationUpdated, which
\* ends with Server::updateChannelLinks; then
\* the setter returns, or updatePropagation goes on to its own clear and emit.
emitToServer ==
    /\ upc = "emitServer"
    /\ notified' = notified \cup {"Server"}
    /\ unannounced' = FALSE
    /\ IF uop = "updateSeason"
       THEN upc' = "clear" /\ uop' = "update"
       ELSE upc' = "idle" /\ uop' = "none"
    /\ updateChannelLinks
    /\ UNCHANGED <<notHfNorChannels, variant, ionoVars, m_autoTimeEnabled,
                   m_signalStrengthCache, wStale, workerVars>>

\* PropagationModule::setSetting(key, value.toInt()): the copy in src/murmur/
\* hands "solarFluxIndex" and "kIndex" to the setters; the copy in
\* src/murmur/modules/ only logs the call.
setSetting(key, value) ==
    /\ upc = "idle"
    /\ IF variant = "murmur" /\ key = "solarFluxIndex" THEN setSolarFluxIndex(value)
       ELSE IF variant = "murmur" /\ key = "kIndex" THEN setKIndex(value)
       ELSE UNCHANGED vars

\* The steps a running setter or update takes by itself.
UpdaterStep == clearCache \/ emitToModule \/ emitToServer

UpdaterCall ==
    \/ \E sfi \in SfiInputs : setSolarFluxIndex(sfi)
    \/ \E k \in KInputs : setKIndex(k)
    \/ \E s \in SeasonInputs : setSeason(s)
    \/ \E e \in BOOLEAN, m \in MonthInputs : setAutoTimeEnabled(e, m)
    \/ \E m \in MonthInputs : updatePropagation(m)

updaterVars == <<variant, ionoVars, m_autoTimeEnabled, upc, uop, unannounced, notified>>

gridPair == <<maidenheadgrid(wop[2]), maidenheadgrid(wop[3])>>
reversePair == <<maidenheadgrid(wop[3]), maidenheadgrid(wop[2])>>

\* HFBandSimulation::canCommunicate / getSignalQuality (from updateAudioRouting)
\* enter calculatePropagation, lines 45-56: 0.0 without the cache if a grid
\* locator is missing; otherwise calculateSignalStrength, whose lines 79-82
\* return the cached value of the pair if there is one.
startQuery(method, user1, user2) ==
    LET key == <<maidenheadgrid(user1), maidenheadgrid(user2)>> IN
    /\ wpc = "idle"
    /\ wop' = <<method, user1, user2>>
    /\ wResult' = NoResult
    /\ IF maidenheadgrid(user1) = "" \/ maidenheadgrid(user2) = ""
       THEN wStrength' = 0 /\ wpc' = "return"
       ELSE IF key \in DOMAIN m_signalStrengthCache
       THEN wStrength' = m_signalStrengthCache[key].strength /\ wpc' = "return"
       ELSE wStrength' = 0 /\ wpc' = "compute"
    /\ UNCHANGED <<notHf, updaterVars, m_signalStrengthCache, wStale>>

\* calculateSignalStrength, lines 85-170
compute ==
    /\ wpc = "compute"
    /\ \E day \in DaytimeInputs, random \in RandomInputs :
          wStrength' = signalStrength(calculateDistance(gridPair[1], gridPair[2]),
                                      day[1], day[2],
                                      m_solarFluxIndex, m_kIndex, m_season, random)
    /\ wStale' = FALSE
    /\ wpc' = "insert1"
    /\ UNCHANGED <<notHf, updaterVars, m_signalStrengthCache, wop, wResult>>

\* calculateSignalStrength, line 173
insert1 ==
    /\ wpc = "insert1"
    /\ m_signalStrengthCache' =
          MapInsert(m_signalStrengthCache, gridPair,
                    [strength |-> wStrength, stale |-> wStale, old |-> FALSE])
    /\ wpc' = "insert2"
    /\ UNCHANGED <<notHf, updaterVars, wop, wStrength, wStale, wResult>>

\* calculateSignalStrength, line 176
insert2 ==
    /\ wpc = "insert2"
    /\ m_signalStrengthCache' =
          MapInsert(m_signalStrengthCache, reversePair,
                    [strength |-> wStrength, stale |-> wStale, old |-> FALSE])
    /\ wpc' = "return"
    /\ UNCHANGED <<notHf, updaterVars, wop, wStrength, wStale, wResult>>

\* HFBandSimulation::canCommunicate, lines 60-63
canCommunicate(propagation) == canCommunicateThreshold(propagation)

\* PropagationModule::updateAudioRouting / Server::updateAudioRouting: TRUE
\* when the pair is blocked ("Signal too weak"), only looked at when both
\* users have a grid locator.
audioBlocked(user1, user2, signalQuality) ==
    /\ maidenheadgrid(user1) # ""
    /\ maidenheadgrid(user2) # ""
    /\ blockAudio(signalQuality)

\* The query returns to its caller.
return ==
    /\ wpc = "return"
    /\ wResult' =
          [method |-> wop[1], user1 |-> wop[2], user2 |-> wop[3],
           strength |-> wStrength,
           value |-> IF wop[1] = "canCommunicate"
                     THEN canCommunicate(wStrength)
                     ELSE audioBlocked(wop[2], wop[3], wStrength),
           signalQualityChanged |->
                /\ wop[1] = "updateAudioRouting"
                /\ maidenheadgrid(wop[2]) # "" /\ maidenheadgrid(wop[3]) # ""
                /\ ~blockAudio(wStrength)]
    /\ wpc' = "idle"
    /\ wop' = NoQuery
    /\ wStrength' = 0
    /\ UNCHANGED <<notHf, updaterVars, m_signalStrengthCache, wStale>>

WorkerNext ==
    \/ \E p \in SessionPairs : startQuery("canCommunicate", p[1], p[2])
    \/ \E p \in SessionPairs : startQuery("updateAudioRouting", p[1], p[2])
    \/ compute
    \/ insert1
    \/ insert2
    \/ return

HfNext == UpdaterCall \/ UpdaterStep \/ WorkerNext

(***************************************************************************)
(* HFBandSimulation: MUF, band recommendation and fading                   *)
(***************************************************************************)

\* std::sqrt, rounded down: the largest r in lo..hi with r * r <= x
RECURSIVE sqrtBetween(_, _, _)
sqrtBetween(x, lo, hi) ==
    IF lo = hi THEN lo
    ELSE LET mid == (lo + hi + 1) \div 2
         IN  IF mid * mid <= x THEN sqrtBetween(x, mid, hi)
             ELSE sqrtBetween(x, lo, mid - 1)

sqrt(x) == sqrtBetween(x, 0, 46340)

\* HFBandSimulation::calculateCriticalFrequency, in kHz; the factors are in
\* thousandths and every product is rounded down.
calculateCriticalFrequency ==
    LET criticalSolarFactor == 1000 + (m_solarFluxIndex - 100) * 10
        criticalGeomagneticFactor == 1000 - (m_kIndex * 500) \div 9
        criticalSeasonFactor == CASE m_season = 0 -> 800
                                  [] m_season = 2 -> 1200
                                  [] OTHER -> 1000
    IN  (((((5000 * criticalSolarFactor) \div 1000) * criticalGeomagneticFactor) \div 1000)
            * criticalSeasonFactor) \div 1000

\* HFBandSimulation::calculateFLayerHeight, in km
calculateFLayerHeight ==
    LET heightSolarFactor == 1000 + (m_solarFluxIndex - 100) * 5
        heightGeomagneticFactor == 1000 + (m_kIndex * 200) \div 9
        heightSeasonFactor == CASE m_season = 0 -> 1100
                                [] m_season = 2 -> 900
                                [] OTHER -> 1000
    IN  (((((300 * heightSolarFactor) \div 1000) * heightGeomagneticFactor) \div 1000)
            * heightSeasonFactor) \div 1000

\* HFBandSimulation::calculateMUF, in kHz.  For distance 0 the code divides
\* 0 by 0 hops: the result is NaN, which no comparison finds greater than a
\* threshold; -1 stands for it.
calculateMUF(distance) ==
    LET fLayerHeight == calculateFLayerHeight
        maxDistance == 2 * sqrt(fLayerHeight * 2 * 6371)
        hops == (distance + maxDistance - 1) \div maxDistance
        halfHop == distance \div (2 * hops)
        tangent == (fLayerHeight * 1000) \div halfHop
        secant == sqrt(1000000 + tangent * tangent)
    IN  IF hops = 0 THEN -1
        ELSE (calculateCriticalFrequency * secant) \div 1000

\* The mutated recommendBand: the 17 m step of the ladder is missing.
recommendBandWithout17(distance) ==
    LET muf == calculateMUF(distance) IN
    IF distance < 500 THEN 20
    ELSE IF distance < 2000
    THEN (IF muf > 21000 THEN 15 ELSE IF muf > 14000 THEN 20 ELSE 40)
    ELSE IF muf > 28000 THEN 10
    ELSE IF muf > 24000 THEN 12
    ELSE IF muf > 21000 THEN 15
    ELSE IF muf > 14000 THEN 20
    ELSE IF muf > 10000 THEN 30
    ELSE IF muf > 7000 THEN 40
    ELSE IF muf > 3500 THEN 80
    ELSE 160

\* HFBandSimulation::recommendBand
recommendBand(distance) ==
    LET muf == calculateMUF(distance) IN
    IF distance < 500 THEN 20
    ELSE IF distance < 2000
    THEN (IF muf > 21000 THEN 15 ELSE IF muf > 14000 THEN 20 ELSE 40)
    ELSE IF muf > 28000 THEN 10
    ELSE IF muf > 24000 THEN 12
    ELSE IF muf > 21000 THEN 15
    ELSE IF muf > 18000 THEN 17
    ELSE IF muf > 14000 THEN 20
    ELSE IF muf > 10000 THEN 30
    ELSE IF muf > 7000 THEN 40
    ELSE IF muf > 3500 THEN 80
    ELSE 160

\* HFBandSimulation::getFadingEffects: packetLoss, in units of 1/10000 like
\* the signal strength
getFadingEffects(strength) == qBound(0, 10000 - strength, 10000)

\* The distances (km) and signal strengths the two methods are called with.
DistanceInputs == {0, 400, 499, 500, 1999, 2000, 5701, 10000}
StrengthInputs == {0, 499, 500, 5000, 10000}

TableInit == tableResult = [method |-> "none", argument |-> 0, muf |-> 0, value |-> 0]

\* A call of recommendBand(distance) in the current ionospheric state
callRecommendBand(distance) ==
    /\ tableResult' = [method |-> "recommendBand", argument |-> distance,
                       muf |-> calculateMUF(distance), value |-> recommendBand(distance)]
    /\ UNCHANGED notTable

\* A call of getFadingEffects(signalStrength, packetLoss, ..)
callGetFadingEffects(strength) ==
    /\ tableResult' = [method |-> "getFadingEffects", argument |-> strength,
                       muf |-> 0, value |-> getFadingEffects(strength)]
    /\ UNCHANGED notTable

\* The ionospheric states the two methods are called in: the setters with
\* values from the whole of the documented ranges, and an SFI above it, which
\* setSolarFluxIndex stores as well.
TableNext ==
    \/ \E distance \in DistanceInputs : callRecommendBand(distance)
    \/ \E strength \in StrengthInputs : callGetFadingEffects(strength)
    \/ \E sfi \in {60, 120, 300, 500} : setSolarFluxIndex(sfi)
    \/ \E k \in {0, 3, 9} : setKIndex(k)
    \/ \E season \in 0..3 : setSeason(season)
    \/ UpdaterStep

(***************************************************************************)
(* UserDataModule: registration caches                                     *)
(***************************************************************************)

\* The names users register with, and QString::toLower on them.
UserNames == {"Alice", "alice", "Bob"}
toLower(name) == IF name = "Alice" THEN "alice" ELSE IF name = "Bob" THEN "bob" ELSE name

\* The numbers QRandomGenerator::global()->bounded(10000) + 1 returns, and
\* the ids callers pass to unregisterUser and setUserProperties.
UserIdInputs == {1, 2}

\* The property maps callers pass to setUserProperties.
PropertyInputs == {(0 :> "Carol"), (0 :> "Carol" @@ 1 :> "comment")}

\* UserDataModule::UserDataModule
UdmInit ==
    /\ m_userNameCache = EmptyMap
    /\ m_userIDCache = EmptyMap
    /\ m_userPropertiesCache = EmptyMap
    /\ udmEmitted = {}
    /\ udmResult = <<"none", 0, FALSE>>

\* UserDataModule::getRegisteredUserName; "" is the null QString
getRegisteredUserName(userID) == MapValue(m_userNameCache, userID, "")

\* UserDataModule::getRegisteredUserID
getRegisteredUserID(name) == MapValue(m_userIDCache, name, -1)

\* UserDataModule::registerUser(const ServerUserInfo &), with the id the
\* random generator returns
registerUser(name, userID) ==
    IF getRegisteredUserID(name) > 0
    THEN /\ udmResult' = <<"registerUser", name, -1>>
         /\ udmEmitted' = {}
         /\ UNCHANGED <<m_userNameCache, m_userIDCache, m_userPropertiesCache, notUdm>>
    ELSE /\ m_userNameCache' = MapInsert(m_userNameCache, userID, name)
         /\ m_userIDCache' = MapInsert(m_userIDCache, name, userID)
         /\ m_userPropertiesCache' = MapInsert(m_userPropertiesCache, userID, (0 :> name))
         /\ udmEmitted' = {<<"userRegistered", userID, name>>}
         /\ udmResult' = <<"registerUser", name, userID>>
         /\ UNCHANGED notUdm

\* The mutated unregisterUser: the check that the id is registered is left out.
unregisterUserUnchecked(id) ==
    /\ m_userNameCache' = MapRemove(m_userNameCache, id)
    /\ m_userIDCache' = MapRemove(m_userIDCache, getRegisteredUserName(id))
    /\ m_userPropertiesCache' = MapRemove(m_userPropertiesCache, id)
    /\ udmEmitted' = {<<"userUnregistered", id>>}
    /\ udmResult' = <<"unregisterUser", id, TRUE>>
    /\ UNCHANGED notUdm

\* UserDataModule::unregisterUser
unregisterUser(id) ==
    IF id \notin DOMAIN m_userNameCache
    THEN /\ udmResult' = <<"unregisterUser", id, FALSE>>
         /\ udmEmitted' = {}
         /\ UNCHANGED <<m_userNameCache, m_userIDCache, m_userPropertiesCache, notUdm>>
    ELSE /\ m_userNameCache' = MapRemove(m_userNameCache, id)
         /\ m_userIDCache' = MapRemove(m_userIDCache, getRegisteredUserName(id))
         /\ m_userPropertiesCache' = MapRemove(m_userPropertiesCache, id)
         /\ udmEmitted' = {<<"userUnregistered", id>>}
         /\ udmResult' = <<"unregisterUser", id, TRUE>>
         /\ UNCHANGED notUdm

\* UserDataModule::setUserProperties
setUserProperties(userID, properties) ==
    IF userID \notin DOMAIN m_userNameCache
    THEN /\ udmResult' = <<"setUserProperties", userID, FALSE>>
         /\ udmEmitted' = {}
         /\ UNCHANGED <<m_userNameCache, m_userIDCache, m_userPropertiesCache, notUdm>>
    ELSE /\ m_userPropertiesCache' = MapInsert(m_userPropertiesCache, userID, properties)
         /\ udmEmitted' = {<<"userPropertiesChanged", userID, properties>>}
         /\ udmResult' = <<"setUserProperties", userID, TRUE>>
         /\ UNCHANGED <<m_userNameCache, m_userIDCache, notUdm>>

UdmNext ==
    \/ \E name \in UserNames, id \in UserIdInputs : registerUser(name, id)
    \/ \E id \in UserIdInputs : unregisterUser(id)
    \/ \E id \in UserIdInputs, properties \in PropertyInputs : setUserProperties(id, properties)

(***************************************************************************)
(* ModuleManager and ThreadPool: the module event bus                      *)
(***************************************************************************)

\* IServerModule::name() of the modules followed: the first two that
\* Server::registerModules registers (the manager treats every module alike)
Modules == {"UserDataModule", "PropagationModule"}

\* The order in which m_modules.values() lists them (a QHash order)
ModuleOrder == <<"PropagationModule", "UserDataModule">>

\* The threads that call the manager; the manager object lives in the first,
\* where Server created it.
Threads == {"main", "other"}
managerThread == "main"

\* ThreadPool::m_workers
Workers == {"worker1", "worker2"}

\* The number of ModuleManager calls followed
MaxCalls == 2

NoTask == [module |-> "none", id |-> 0, caller |-> "none", method |-> "none"]
NoCall == [method |-> "none", id |-> 0, todo |-> <<>>]
NoHandler == [module |-> "none", id |-> 0]
NoHistory == [method |-> "none", modules |-> {}, returned |-> FALSE, after |-> {}]

\* ModuleManager::registerModule: false for a name that is registered
registerModule(modules, name) ==
    IF name \in modules THEN modules ELSE modules \cup {name}

\* Server::registerModules: one registerModule per module
registerModules ==
    registerModule(registerModule({}, "UserDataModule"), "PropagationModule")

\* A worker thread that has ended
Terminated == [module |-> "none", id |-> 0, caller |-> "none", method |-> "terminated"]

\* A worker thread that waits on m_condition
Blocked == [module |-> "none", id |-> 0, caller |-> "none", method |-> "blocked"]

\* The workers that wait on m_condition
blocked == {w \in Workers : workerTask[w] = Blocked}

\* The sets of workers that n calls of m_condition.notify_one() can wake
wakeSets(n) ==
    {S \in SUBSET blocked :
        Cardinality(S) = IF n < Cardinality(blocked) THEN n ELSE Cardinality(blocked)}

\* The workers after those of S have been woken: they are back at the
\* predicate of the wait
woken(S) == [w \in Workers |-> IF w \in S THEN NoTask ELSE workerTask[w]]

\* The largest number of tasks handed to ThreadPool::enqueue directly
MaxTasks == 2

\* The ThreadPool after its constructor: not stopped, nothing running
PoolInit ==
    /\ m_stop = FALSE
    /\ m_activeThreads = 0
    /\ enqueued = {}
    /\ completed = {}
    /\ waitForDoneCall = [t \in Threads |-> [called |-> FALSE, before |-> {}, returned |-> FALSE]]
    /\ nextTask = 1

BusInit ==
    /\ m_modules = registerModules
    /\ m_tasks = <<>>
    /\ workerTask = [w \in Workers |-> Blocked]
    /\ callerPc = [t \in Threads |-> "idle"]
    /\ call = [t \in Threads |-> NoCall]
    /\ futures = [t \in Threads \cup Workers |-> {}]
    /\ eventQueue = <<>>
    /\ handling = NoHandler
    /\ received = [m \in Modules |-> <<>>]
    /\ executed = [m \in Modules |-> {}]
    /\ threw = {}
    /\ history = [id \in 1..MaxCalls |-> NoHistory]
    /\ nextCall = 1

\* m_modules.values()
values == SelectSeq(ModuleOrder, LAMBDA m : m \in m_modules)

\* Entering a ModuleManager method: foreach takes its copy of values()
enter(t, method, pc) ==
    /\ callerPc[t] = "idle"
    /\ t = managerThread => handling = NoHandler
    /\ nextCall <= MaxCalls
    /\ call' = [call EXCEPT ![t] = [method |-> method, id |-> nextCall, todo |-> values]]
    /\ callerPc' = [callerPc EXCEPT ![t] = pc]
    /\ history' = [history EXCEPT ![nextCall] =
                      [method |-> method, modules |-> m_modules, returned |-> FALSE,
                       after |-> {id \in 1..MaxCalls : history[id].returned}]]
    /\ nextCall' = nextCall + 1

\* ModuleManager::broadcastEvent called on thread t
broadcastEvent(t) ==
    /\ enter(t, "broadcastEvent", "emit")
    /\ UNCHANGED <<notBus, m_modules, m_tasks, workerTask, futures, eventQueue,
                   handling, received, executed, threw>>

\* One round of the foreach of broadcastEvent: emit module->moduleEvent.  The
\* connection to ModuleManager::onModuleEvent is an auto connection: on the
\* manager's thread the slot is called inside the emit, which returns when
\* the slot has returned; on another thread the call is posted to the
\* manager's thread.  After the last round the method returns.
emitModuleEvent(t) ==
    /\ callerPc[t] = "emit"
    /\ t = managerThread => handling = NoHandler
    /\ IF call[t].todo = <<>>
       THEN /\ callerPc' = [callerPc EXCEPT ![t] = "idle"]
            /\ call' = [call EXCEPT ![t] = NoCall]
            /\ history' = [history EXCEPT ![call[t].id].returned = TRUE]
            /\ UNCHANGED <<handling, received, eventQueue>>
       ELSE LET module == Head(call[t].todo)
                event == [module |-> module, id |-> call[t].id]
            IN  /\ call' = [call EXCEPT ![t].todo = Tail(call[t].todo)]
                /\ IF t = managerThread
                   THEN /\ handling' = event
                        /\ received' = [received EXCEPT ![module] = Append(@, call[t].id)]
                        /\ UNCHANGED eventQueue
                   ELSE /\ eventQueue' = Append(eventQueue, event)
                        /\ UNCHANGED <<handling, received>>
                /\ UNCHANGED <<callerPc, history>>
    /\ UNCHANGED <<notBus, m_modules, m_tasks, workerTask, futures, executed, threw,
                   nextCall>>

\* The event loop of the manager's thread takes the next posted call and
\* enters ModuleManager::onModuleEvent with it.
processEvents ==
    /\ callerPc[managerThread] = "idle"
    /\ handling = NoHandler
    /\ eventQueue # <<>>
    /\ handling' = Head(eventQueue)
    /\ eventQueue' = Tail(eventQueue)
    /\ received' = [received EXCEPT ![Head(eventQueue).module] =
                       Append(@, Head(eventQueue).id)]
    /\ UNCHANGED <<notBus, m_modules, m_tasks, workerTask, callerPc, call, futures,
                   executed, threw, history, nextCall>>

\* ModuleManager::onModuleEvent, with the slots connected to
\* moduleEventReceived, returns.
onModuleEvent ==
    /\ handling # NoHandler
    /\ handling' = NoHandler
    /\ UNCHANGED <<notBus, m_modules, m_tasks, workerTask, callerPc, call, futures,
                   eventQueue, received, executed, threw, history, nextCall>>

\* ThreadPool::enqueue for every module of values(): the tasks join the
\* queue and their futures are kept.  With the stop flag set enqueue throws
\* out of the method and nothing is queued.  Every enqueue ends with
\* m_condition.notify_one().
enqueueAll(t, method) ==
    /\ ~m_stop
    /\ m_tasks' = m_tasks \o [i \in 1..Len(values) |->
                      [module |-> values[i], id |-> nextCall, caller |-> t,
                       method |-> method]]
    /\ futures' = [futures EXCEPT ![t] = m_modules]
    /\ \E S \in wakeSets(Len(values)) : workerTask' = woken(S)
    /\ enqueued' = enqueued \cup {<<m, nextCall>> : m \in m_modules}
    /\ UNCHANGED <<m_stop, m_activeThreads, completed, waitForDoneCall, nextTask>>

\* ModuleManager::broadcastEventParallel, lines 417-434: a task per module,
\* then the wait for the futures
broadcastEventParallel(t) ==
    /\ enter(t, "broadcastEventParallel", "wait")
    /\ enqueueAll(t, "broadcastEventParallel")
    /\ UNCHANGED <<notBusNorPool, m_modules, eventQueue, handling, received,
                   executed, threw>>

\* ModuleManager::executeOnAllModules, lines 444-460: a task per module,
\* then the wait for the futures
executeOnAllModules(t) ==
    /\ enter(t, "executeOnAllModules", "wait")
    /\ enqueueAll(t, "executeOnAllModules")
    /\ UNCHANGED <<notBusNorPool, m_modules, eventQueue, handling, received,
                   executed, threw>>

\* for (auto& future : futures) future.wait(): the method returns when every
\* future is ready; wait() does not rethrow what a task threw.
waitForFutures(t) ==
    /\ callerPc[t] = "wait"
    /\ futures[t] = {}
    /\ callerPc' = [callerPc EXCEPT ![t] = "idle"]
    /\ call' = [call EXCEPT ![t] = NoCall]
    /\ history' = [history EXCEPT ![call[t].id].returned = TRUE]
    /\ UNCHANGED <<notBus, m_modules, m_tasks, workerTask, futures, eventQueue,
                   handling, received, executed, threw, nextCall>>

\* ThreadPool::workerThread, lines 98-116: under m_queueMutex take the front
\* task and increment the counter of active threads
takeTask(w) ==
    /\ workerTask[w] = NoTask
    /\ m_tasks # <<>>
    /\ workerTask' = [workerTask EXCEPT ![w] = Head(m_tasks)]
    /\ m_tasks' = Tail(m_tasks)
    /\ m_activeThreads' = m_activeThreads + 1
    /\ UNCHANGED <<notBusNorPool, m_modules, callerPc, call, futures, eventQueue, handling,
                   received, executed, threw, history, nextCall,
                   m_stop, enqueued, completed, waitForDoneCall, nextTask>>

\* What the body of a task does.  A broadcastEventParallel task emits
\* module->moduleEvent on the worker thread, which posts the call of
\* onModuleEvent to the manager's thread; an executeOnAllModules task calls
\* func(module), which returns or throws, and so does the function of a
\* task that was handed to enqueue directly.  The function of a task of
\* executeOnModule that a task called is taken to return.
taskBody(task, throws) ==
    IF task.method = "broadcastEventParallel"
    THEN /\ ~throws
         /\ eventQueue' = Append(eventQueue, [module |-> task.module, id |-> task.id])
         /\ UNCHANGED <<executed, threw>>
    ELSE IF task.method = "executeOnModule"
    THEN /\ ~throws
         /\ UNCHANGED <<eventQueue, executed, threw>>
    ELSE IF task.method = "enqueue"
    THEN /\ threw' = IF throws THEN threw \cup {<<task.module, task.id>>} ELSE threw
         /\ UNCHANGED <<eventQueue, executed>>
    ELSE /\ executed' = [executed EXCEPT ![task.module] = @ \cup {task.id}]
         /\ threw' = IF throws THEN threw \cup {<<task.module, task.id>>} ELSE threw
         /\ UNCHANGED eventQueue

\* ThreadPool::workerThread, lines 97-103, for a worker that comes back from
\* a task: it touches nothing shared before it evaluates the predicate of the
\* wait, so it is taken to block at once when the predicate is false.
backToWait == IF m_tasks = <<>> /\ ~m_stop THEN Blocked ELSE NoTask

\* A worker that lets the exception of a task escape: the thread ends with
\* the task, whose future never becomes ready.
runTaskUncaught(w, throws) ==
    /\ workerTask[w] \notin {NoTask, Blocked, Terminated}
    /\ futures[w] = {}
    /\ taskBody(workerTask[w], throws)
    /\ IF throws
       THEN /\ workerTask' = [workerTask EXCEPT ![w] = Terminated]
            /\ UNCHANGED <<futures, m_activeThreads>>
       ELSE /\ futures' = [futures EXCEPT ![workerTask[w].caller] = @ \ {workerTask[w].module}]
            /\ workerTask' = [workerTask EXCEPT ![w] = backToWait]
            /\ m_activeThreads' = m_activeThreads - 1
    /\ completed' = completed \cup {<<workerTask[w].module, workerTask[w].id>>}
    /\ UNCHANGED <<notBusNorPool, m_modules, m_tasks, callerPc, call, handling, received,
                   history, nextCall, m_stop, enqueued, waitForDoneCall, nextTask>>

\* ThreadPool::workerThread, lines 118-128: run the task and decrement the
\* counter of active threads.  The packaged_task
\* of enqueue stores an exception in the future and the try block catches
\* what is left, so the future becomes ready and the worker goes on to the
\* next task in either case.
runTask(w, throws) ==
    /\ workerTask[w] \notin {NoTask, Blocked, Terminated}
    /\ futures[w] = {}
    /\ taskBody(workerTask[w], throws)
    /\ futures' = [futures EXCEPT ![workerTask[w].caller] = @ \ {workerTask[w].module}]
    /\ workerTask' = [workerTask EXCEPT ![w] = backToWait]
    /\ m_activeThreads' = m_activeThreads - 1
    /\ completed' = completed \cup {<<workerTask[w].module, workerTask[w].id>>}
    /\ UNCHANGED <<notBusNorPool, m_modules, m_tasks, callerPc, call, handling, received,
                   history, nextCall, m_stop, enqueued, waitForDoneCall, nextTask>>

\* ModuleManager::executeOnModule, lines 471-489, called by the function of
\* an executeOnAllModules task that runs on worker w: the task for the named
\* module is enqueued and future.wait() blocks the worker, inside its task,
\* until another worker has run it.  For an unknown name the method returns
\* false at once.  A task makes the call once.
executeOnModule(w, moduleName) ==
    /\ workerTask[w].method = "executeOnAllModules"
    /\ futures[w] = {}
    /\ <<workerTask[w].module, workerTask[w].id>> \notin nestedCalls
    /\ moduleName \in m_modules
    /\ ~m_stop
    /\ nestedCalls' = nestedCalls \cup {<<workerTask[w].module, workerTask[w].id>>}
    /\ UNCHANGED rejected
    /\ m_tasks' = Append(m_tasks, [module |-> moduleName, id |-> workerTask[w].id + MaxCalls,
                                   caller |-> w, method |-> "executeOnModule"])
    /\ futures' = [futures EXCEPT ![w] = {moduleName}]
    /\ \E S \in wakeSets(1) : workerTask' = woken(S)
    /\ enqueued' = enqueued \cup {<<moduleName, workerTask[w].id + MaxCalls>>}
    /\ UNCHANGED <<notBusPoolNorNest, m_modules, callerPc, call, eventQueue, handling,
                   received, executed, threw, history, nextCall,
                   m_stop, m_activeThreads, completed, waitForDoneCall, nextTask>>

\* The steps a thread inside a ModuleManager method takes by itself
CallerStep(t) == emitModuleEvent(t) \/ waitForFutures(t)

\* ThreadPool::workerThread, lines 98-103: with the queue empty and the pool
\* not stopped the predicate of the wait is false and the worker blocks on
\* m_condition, releasing m_queueMutex.
waitForTask(w) ==
    /\ workerTask[w] = NoTask
    /\ m_tasks = <<>>
    /\ ~m_stop
    /\ workerTask' = [workerTask EXCEPT ![w] = Blocked]
    /\ UNCHANGED <<notBus, m_modules, m_tasks, callerPc, call, futures, eventQueue,
                   handling, received, executed, threw, history, nextCall>>

\* A worker that returns as soon as the pool is stopping
exitWorkerOnStop(w) ==
    /\ workerTask[w] = NoTask
    /\ m_stop
    /\ workerTask' = [workerTask EXCEPT ![w] = Terminated]
    /\ UNCHANGED <<notBus, m_modules, m_tasks, callerPc, call, futures, eventQueue,
                   handling, received, executed, threw, history, nextCall>>

\* ThreadPool::workerThread, lines 105-108: stopping and nothing left to run,
\* the worker returns.
exitWorker(w) ==
    /\ workerTask[w] = NoTask
    /\ m_stop
    /\ m_tasks = <<>>
    /\ workerTask' = [workerTask EXCEPT ![w] = Terminated]
    /\ UNCHANGED <<notBus, m_modules, m_tasks, callerPc, call, futures, eventQueue,
                   handling, received, executed, threw, history, nextCall>>

\* An enqueue that does not look at the stop flag
enqueueIgnoringStop(t) ==
    /\ callerPc[t] = "idle"
    /\ nextTask <= MaxTasks
    /\ \A u \in Threads : callerPc[u] # "destroyed"
    /\ m_tasks' = Append(m_tasks, [module |-> "none", id |-> nextTask, caller |-> t,
                                   method |-> "enqueue"])
    /\ \E S \in wakeSets(1) : workerTask' = woken(S)
    /\ enqueued' = enqueued \cup {<<"none", nextTask>>}
    /\ nextTask' = nextTask + 1
    /\ UNCHANGED <<notBusNorPool, m_modules, callerPc, call, futures, eventQueue,
                   handling, received, executed, threw, history, nextCall,
                   m_stop, m_activeThreads, completed, waitForDoneCall>>

\* ThreadPool::enqueue, part_000 lines 257-288, called directly with one
\* task on a pool that exists: under m_queueMutex it throws when the stop
\* flag is set, before anything is queued or notified, and otherwise queues
\* the task; then it wakes one waiting worker.
enqueue(t) ==
    /\ callerPc[t] = "idle"
    /\ nextTask <= MaxTasks
    /\ \A u \in Threads : callerPc[u] # "destroyed"
    /\ IF m_stop
       THEN /\ rejected' = rejected \cup {<<"none", nextTask>>}
            /\ UNCHANGED <<m_tasks, workerTask, enqueued, nestedCalls>>
       ELSE /\ m_tasks' = Append(m_tasks, [module |-> "none", id |-> nextTask, caller |-> t,
                                           method |-> "enqueue"])
            /\ \E S \in wakeSets(1) : workerTask' = woken(S)
            /\ enqueued' = enqueued \cup {<<"none", nextTask>>}
            /\ UNCHANGED nestVars
    /\ nextTask' = nextTask + 1
    /\ UNCHANGED <<notBusPoolNorNest, m_modules, callerPc, call, futures, eventQueue,
                   handling, received, executed, threw, history, nextCall,
                   m_stop, m_activeThreads, completed, waitForDoneCall>>

\* ThreadPool::waitForDone is called: the tasks enqueued so far are noted
waitForDone(t) ==
    /\ callerPc[t] = "idle"
    /\ ~waitForDoneCall[t].called
    /\ callerPc' = [callerPc EXCEPT ![t] = "waitForDone"]
    /\ waitForDoneCall' = [waitForDoneCall EXCEPT ![t] =
                              [called |-> TRUE, before |-> enqueued, returned |-> FALSE]]
    /\ UNCHANGED <<notBusNorPool, m_modules, m_tasks, workerTask, call, futures,
                   eventQueue, handling, received, executed, threw, history, nextCall,
                   m_stop, m_activeThreads, enqueued, completed, nextTask>>

\* The loop of waitForDone with a test that looks at the queue alone
waitForDoneQueueOnly(t) ==
    /\ callerPc[t] = "waitForDone"
    /\ m_tasks = <<>>
    /\ callerPc' = [callerPc EXCEPT ![t] = "idle"]
    /\ waitForDoneCall' = [waitForDoneCall EXCEPT ![t].returned = TRUE]
    /\ UNCHANGED <<notBusNorPool, m_modules, m_tasks, workerTask, call, futures,
                   eventQueue, handling, received, executed, threw, history, nextCall,
                   m_stop, m_activeThreads, enqueued, completed, nextTask>>

\* ThreadPool::waitForDone, lines 63-72: under m_queueMutex the loop is left
\* when the queue is empty and no thread is active; otherwise the caller
\* sleeps and tests again.
waitForDoneReturns(t) ==
    /\ callerPc[t] = "waitForDone"
    /\ m_tasks = <<>>
    /\ m_activeThreads = 0
    /\ callerPc' = [callerPc EXCEPT ![t] = "idle"]
    /\ waitForDoneCall' = [waitForDoneCall EXCEPT ![t].returned = TRUE]
    /\ UNCHANGED <<notBusNorPool, m_modules, m_tasks, workerTask, call, futures,
                   eventQueue, handling, received, executed, threw, history, nextCall,
                   m_stop, m_activeThreads, enqueued, completed, nextTask>>

\* ThreadPool::~ThreadPool, lines 34-37: the stop flag is set under
\* m_queueMutex.
ThreadPool_destructor(t) ==
    /\ callerPc[t] = "idle"
    /\ ~m_stop
    /\ m_stop' = TRUE
    /\ callerPc' = [callerPc EXCEPT ![t] = "notify_all"]
    /\ UNCHANGED <<notBusNorPool, m_modules, m_tasks, workerTask, call, futures,
                   eventQueue, handling, received, executed, threw, history, nextCall,
                   m_activeThreads, enqueued, completed, waitForDoneCall, nextTask>>

\* The destructor waking one waiting worker only
notifyOne(t) ==
    /\ callerPc[t] = "notify_all"
    /\ \E S \in wakeSets(1) : workerTask' = woken(S)
    /\ callerPc' = [callerPc EXCEPT ![t] = "join"]
    /\ UNCHANGED <<notBus, m_modules, m_tasks, call, futures, eventQueue, handling,
                   received, executed, threw, history, nextCall>>

\* ThreadPool::~ThreadPool, line 40: m_condition.notify_all() wakes every
\* worker that waits.
notifyAll(t) ==
    /\ callerPc[t] = "notify_all"
    /\ workerTask' = woken(blocked)
    /\ callerPc' = [callerPc EXCEPT ![t] = "join"]
    /\ UNCHANGED <<notBus, m_modules, m_tasks, call, futures, eventQueue, handling,
                   received, executed, threw, history, nextCall>>

\* ThreadPool::~ThreadPool, lines 43-47: join returns for a worker that has
\* ended, and the destructor returns after the last join.
joinWorkers(t) ==
    /\ callerPc[t] = "join"
    /\ \A w \in Workers : workerTask[w] = Terminated
    /\ callerPc' = [callerPc EXCEPT ![t] = "destroyed"]
    /\ UNCHANGED <<notBus, m_modules, m_tasks, workerTask, call, futures, eventQueue,
                   handling, received, executed, threw, history, nextCall>>

\* The steps of a worker thread
WorkerStep(w) ==
    \/ takeTask(w)
    \/ \E throws \in BOOLEAN : runTask(w, throws)
    \/ waitForTask(w)

\* The steps of a thread that is inside a method of the pool
PoolCallerStep(t) == waitForDoneReturns(t) \/ notifyAll(t) \/ joinWorkers(t)

\* The pool used directly: tasks are enqueued, waited for, and the pool is
\* destroyed, while the workers run.
PoolNext ==
    \/ \E t \in Threads : enqueue(t)
    \/ \E t \in Threads : waitForDone(t)
    \/ \E t \in Threads : waitForDoneReturns(t)
    \/ \E t \in Threads : ThreadPool_destructor(t)
    \/ \E t \in Threads : notifyAll(t)
    \/ \E t \in Threads : joinWorkers(t)
    \/ \E w \in Workers : takeTask(w)
    \/ \E w \in Workers, throws \in BOOLEAN : runTask(w, throws)
    \/ \E w \in Workers : waitForTask(w)
    \/ \E w \in Workers : exitWorker(w)

\* No task has called the manager
NestInit == nestedCalls = {} /\ rejected = {}

\* The manager called from other threads and from the functions of its own
\* tasks
NestedNext ==
    \/ \E t \in Threads : executeOnAllModules(t)
    \/ \E t \in Threads : waitForFutures(t)
    \/ \E w \in Workers, moduleName \in Modules : executeOnModule(w, moduleName)
    \/ \E w \in Workers : takeTask(w)
    \/ \E w \in Workers, throws \in BOOLEAN : runTask(w, throws)
    \/ \E w \in Workers : waitForTask(w)

BusNext ==
    \/ \E t \in Threads : broadcastEvent(t)
    \/ \E t \in Threads : broadcastEventParallel(t)
    \/ \E t \in Threads : executeOnAllModules(t)
    \/ \E t \in Threads : emitModuleEvent(t)
    \/ \E t \in Threads : waitForFutures(t)
    \/ \E w \in Workers : takeTask(w)
    \/ \E w \in Workers, throws \in BOOLEAN : runTask(w, throws)
    \/ \E w \in Workers : waitForTask(w)
    \/ processEvents
    \/ onModuleEvent

(***************************************************************************)
(* ModuleManager: registerModule and shutdownAllModules                    *)
(***************************************************************************)

\* The module objects handed to registerModule: the three that
\* Server::registerModules creates and a second object that answers name()
\* like the first
ModuleObjects == {"userDataModule", "userDataModule2", "propagationModule",
                  "userStatsModule"}

\* IServerModule::name() of each object
IServerModule_name(module) ==
    CASE module \in {"userDataModule", "userDataModule2"} -> "UserDataModule"
      [] module = "propagationModule" -> "PropagationModule"
      [] OTHER -> "UserStatisticsModule"

\* The number of registerModule calls followed
MaxRegistrations == 4

NoRegisterCall == [n |-> 0, module |-> "null", returned |-> FALSE, emitted |-> {}]
NotShutDown == <<"none">>

\* ModuleManager::ModuleManager: an empty registry
RegInit ==
    /\ registry = EmptyMap
    /\ registered = <<>>
    /\ registerCall = NoRegisterCall
    /\ shutdownOrder = NotShutDown

\* ModuleManager::getModule
getModule(moduleName) == MapValue(registry, moduleName, "null")

\* A registerModule that inserts whatever the registry holds
registerModuleOverwriting(module) ==
    /\ registerCall.n < MaxRegistrations
    /\ shutdownOrder = NotShutDown
    /\ IF module = "null"
       THEN /\ registerCall' = [n |-> registerCall.n + 1, module |-> module,
                                returned |-> FALSE, emitted |-> {}]
            /\ UNCHANGED <<registry, registered>>
       ELSE /\ registry' = MapInsert(registry, IServerModule_name(module), module)
            /\ registered' = Append(registered, IServerModule_name(module))
            /\ registerCall' = [n |-> registerCall.n + 1, module |-> module,
                                returned |-> TRUE,
                                emitted |-> {<<"moduleRegistered", IServerModule_name(module)>>}]
    /\ UNCHANGED <<shutdownOrder, notReg>>

\* ModuleManager::registerModule as a call: false for the null pointer and
\* for a name the registry holds; otherwise the insert, the connect and the
\* emit of moduleRegistered, and true.
ModuleManager_registerModule(module) ==
    /\ registerCall.n < MaxRegistrations
    /\ shutdownOrder = NotShutDown
    /\ IF module = "null" \/ IServerModule_name(module) \in DOMAIN registry
       THEN /\ registerCall' = [n |-> registerCall.n + 1, module |-> module,
                                returned |-> FALSE, emitted |-> {}]
            /\ UNCHANGED <<registry, registered>>
       ELSE /\ registry' = MapInsert(registry, IServerModule_name(module), module)
            /\ registered' = Append(registered, IServerModule_name(module))
            /\ registerCall' = [n |-> registerCall.n + 1, module |-> module,
                                returned |-> TRUE,
                                emitted |-> {<<"moduleRegistered", IServerModule_name(module)>>}]
    /\ UNCHANGED <<shutdownOrder, notReg>>

\* The orders in which QHash::keys() can list the keys: the order of a QHash
\* is that of its hash table, which the insertions do not determine
QHash_keys ==
    {order \in [1..Cardinality(DOMAIN registry) -> DOMAIN registry] :
        \A i, j \in DOMAIN order : i # j => order[i] # order[j]}

\* The sequence backwards
backwards(seq) == [i \in 1..Len(seq) |-> seq[Len(seq) + 1 - i]]

\* ModuleManager::shutdownAllModules: module->shutdown() for the names of
\* m_modules.keys() from the last to the first
shutdownAllModules ==
    /\ shutdownOrder = NotShutDown
    /\ \E moduleNames \in QHash_keys : shutdownOrder' = backwards(moduleNames)
    /\ UNCHANGED <<registry, registered, registerCall, notReg>>

RegNext ==
    \/ \E module \in ModuleObjects \cup {"null"} : ModuleManager_registerModule(module)
    \/ shutdownAllModules

(***************************************************************************)
(* DBWrapper: transactions on the shared connection                        *)
(***************************************************************************)

\* The threads that call the wrapper, and the calls followed per thread
DbThreads == {"t1", "t2"}
MaxDbCalls == 2

\* The property maps callers pass to DBWrapper::setUserProperties
MapInputs == {(0 :> "Carol"), (0 :> "Dave" @@ 1 :> "comment")}

\* The textures callers pass to storeTexture
TextureInputs == {"png1", "png2"}

\* The rows of user_properties (of the one user followed) that hold a map
rowsOf(properties) == {<<k, properties[k]>> : k \in DOMAIN properties}

\* QMap iteration (constBegin to constEnd): the keys in ascending order
RECURSIVE keysInOrder(_)
keysInOrder(keys) ==
    IF keys = {} THEN <<>>
    ELSE LET k == CHOOSE x \in keys : \A y \in keys : x <= y
         IN  <<k>> \o keysInOrder(keys \ {k})

NoDbCall == [method |-> "none", argument |-> <<>>, previous |-> {}, todo |-> <<>>,
             result |-> "none"]

\* A database without rows, a connection without a transaction
DbInit ==
    /\ committed = [user_properties |-> {}, textures |-> <<>>]
    /\ uncommitted = [user_properties |-> {}, textures |-> <<>>]
    /\ inTransaction = FALSE
    /\ dbPc = [t \in DbThreads |-> "idle"]
    /\ dbCall = [t \in DbThreads |-> NoDbCall]
    /\ dbCalls = [t \in DbThreads |-> 0]

\* A statement that succeeded on m_db: inside a transaction it changes what
\* the connection sees, outside one it is committed at once.
statement(tables) ==
    /\ uncommitted' = tables
    /\ committed' = IF inTransaction THEN committed ELSE tables

\* DBWrapper::setUserProperties, lines 311-313: beginTransaction.
\* m_db.transaction() fails (accepted is false), or it starts a
\* transaction; a transaction that is open on the connection is committed
\* by the server when the next one is started.
DBWrapper_setUserProperties(t, properties, accepted) ==
    /\ dbPc[t] = "idle"
    /\ dbCalls[t] < MaxDbCalls
    /\ dbCalls' = [dbCalls EXCEPT ![t] = @ + 1]
    /\ IF accepted
       THEN /\ committed' = uncommitted
            /\ inTransaction' = TRUE
            /\ dbPc' = [dbPc EXCEPT ![t] = "delete"]
            /\ dbCall' = [dbCall EXCEPT ![t] =
                  [method |-> "setUserProperties", argument |-> properties,
                   previous |-> committed.user_properties,
                   todo |-> keysInOrder(DOMAIN properties), result |-> "none"]]
       ELSE /\ dbCall' = [dbCall EXCEPT ![t] =
                  [method |-> "setUserProperties", argument |-> properties,
                   previous |-> committed.user_properties,
                   todo |-> <<>>, result |-> FALSE]]
            /\ UNCHANGED <<committed, inTransaction, dbPc>>
    /\ UNCHANGED <<notDb, uncommitted>>

\* execute("DELETE FROM user_properties WHERE user_id = ?"), line 317: the
\* returned query is dropped, so a statement that failed is only logged.
executeDelete(t, fails) ==
    /\ dbPc[t] = "delete"
    /\ IF fails THEN UNCHANGED <<committed, uncommitted>>
       ELSE statement([uncommitted EXCEPT !.user_properties = {}])
    /\ dbPc' = [dbPc EXCEPT ![t] = IF dbCall[t].todo = <<>> THEN "commit" ELSE "insert"]
    /\ UNCHANGED <<notDb, inTransaction, dbCall, dbCalls>>

\* execute("INSERT INTO user_properties ..."), lines 320-323: one round of
\* the loop; the returned query is dropped here too.
executeInsert(t, fails) ==
    /\ dbPc[t] = "insert"
    /\ IF fails THEN UNCHANGED <<committed, uncommitted>>
       ELSE statement([uncommitted EXCEPT !.user_properties =
               @ \cup {<<Head(dbCall[t].todo), dbCall[t].argument[Head(dbCall[t].todo)]>>}])
    /\ dbCall' = [dbCall EXCEPT ![t].todo = Tail(@)]
    /\ dbPc' = [dbPc EXCEPT ![t] = IF Tail(dbCall[t].todo) = <<>> THEN "commit" ELSE "insert"]
    /\ UNCHANGED <<notDb, inTransaction, dbCalls>>

\* commitTransaction, lines 326-331: true is returned after a commit that
\* succeeded; after one that failed the rollback follows.
commitTransaction(t, fails) ==
    /\ dbPc[t] = "commit"
    /\ IF fails
       THEN /\ dbPc' = [dbPc EXCEPT ![t] = "rollback"]
            /\ UNCHANGED <<committed, inTransaction, dbCall>>
       ELSE /\ committed' = uncommitted
            /\ inTransaction' = FALSE
            /\ dbPc' = [dbPc EXCEPT ![t] = "idle"]
            /\ dbCall' = [dbCall EXCEPT ![t].result = TRUE]
    /\ UNCHANGED <<notDb, uncommitted, dbCalls>>

\* rollbackTransaction and return false, lines 327-328
rollbackTransaction(t) ==
    /\ dbPc[t] = "rollback"
    /\ uncommitted' = committed
    /\ inTransaction' = FALSE
    /\ dbPc' = [dbPc EXCEPT ![t] = "idle"]
    /\ dbCall' = [dbCall EXCEPT ![t].result = FALSE]
    /\ UNCHANGED <<notDb, committed, dbCalls>>

\* DBWrapper::storeTexture, lines 340-343: the SELECT and query.next()
storeTexture(t, texture) ==
    /\ dbPc[t] = "idle"
    /\ dbCalls[t] < MaxDbCalls
    /\ dbCalls' = [dbCalls EXCEPT ![t] = @ + 1]
    /\ dbCall' = [dbCall EXCEPT ![t] =
          [method |-> "storeTexture", argument |-> texture,
           previous |-> committed.user_properties, todo |-> <<>>, result |-> "none"]]
    /\ dbPc' = [dbPc EXCEPT ![t] =
          IF uncommitted.textures # <<>> THEN "update" ELSE "insertTexture"]
    /\ UNCHANGED <<notDb, committed, uncommitted, inTransaction>>

\* execute("UPDATE textures SET texture_data = ? WHERE user_id = ?"), lines 345-347
executeUpdate(t) ==
    /\ dbPc[t] = "update"
    /\ statement([uncommitted EXCEPT !.textures =
                     [i \in DOMAIN uncommitted.textures |-> dbCall[t].argument]])
    /\ dbCall' = [dbCall EXCEPT ![t].result = uncommitted.textures # <<>>]
    /\ dbPc' = [dbPc EXCEPT ![t] = "idle"]
    /\ UNCHANGED <<notDb, inTransaction, dbCalls>>

\* execute("INSERT INTO textures (user_id, texture_data) VALUES (?, ?)"), lines 350-352
executeInsertTexture(t) ==
    /\ dbPc[t] = "insertTexture"
    /\ statement([uncommitted EXCEPT !.textures = Append(@, dbCall[t].argument)])
    /\ dbCall' = [dbCall EXCEPT ![t].result = TRUE]
    /\ dbPc' = [dbPc EXCEPT ![t] = "idle"]
    /\ UNCHANGED <<notDb, inTransaction, dbCalls>>

\* One thread calling setUserProperties, with statements and commits that
\* may fail.
DbNext ==
    \/ \E properties \in MapInputs, accepted \in BOOLEAN :
          DBWrapper_setUserProperties("t1", properties, accepted)
    \/ \E fails \in BOOLEAN : executeDelete("t1", fails)
    \/ \E fails \in BOOLEAN : executeInsert("t1", fails)
    \/ \E fails \in BOOLEAN : commitTransaction("t1", fails)
    \/ rollbackTransaction("t1")

\* The threads calling setUserProperties and storeTexture side by side; no
\* statement and no commit fails.
DbConcurrentNext ==
    \/ \E t \in DbThreads, properties \in MapInputs, accepted \in BOOLEAN :
          DBWrapper_setUserProperties(t, properties, accepted)
    \/ \E t \in DbThreads : executeDelete(t, FALSE)
    \/ \E t \in DbThreads : executeInsert(t, FALSE)
    \/ \E t \in DbThreads : commitTransaction(t, FALSE)
    \/ \E t \in DbThreads, texture \in TextureInputs : storeTexture(t, texture)
    \/ \E t \in DbThreads : executeUpdate(t)
    \/ \E t \in DbThreads : executeInsertTexture(t)

(***************************************************************************)
(* Mumble::Protocol: control-plane framing and the voice packet decoder    *)
(***************************************************************************)

\* enum class TCPMessageType: Version = 0 up to PropagationUpdate = 30
TCPMessageType == 0..30

\* enum class UDPMessageType: VoiceData = 0, Ping = 1, VoiceOpus = 4
UDPMessageType == {0, 1, 4}

\* static_cast<char> of a value 0..255 (char is signed), and
\* static_cast<unsigned char> of a char
toChar(b) == IF b > 127 THEN b - 256 ELSE b
toUnsignedChar(c) == IF c < 0 THEN c + 256 ELSE c

\* (x >> n) & 0xFF for a non-negative x
shiftByte(x, n) == (x \div (2 ^ n)) % 256

\* The sizes of the messages framed here, on both sides of the byte
\* boundary of the length field, and a message of each size
PayloadSizes == {0, 1, 255, 256, 300}
payload(n) == [i \in 1..n |-> toChar((i * 7) % 256)]

\* Nothing framed and nothing decoded yet; type and length of a header are
\* the caller's out-parameters.
NoSent == [type |-> -1, message |-> <<>>]
NoHeader == [data |-> <<>>, ok |-> FALSE, type |-> -1, length |-> 0]

\* The first bytes of voice packets: every 3-bit type under some targets
FirstBytes == {type + 8 * target : type \in 0..7, target \in {0, 1, 15, 31}}
UdpBuffers ==
    {<<>>} \cup {<<b>> : b \in FirstBytes} \cup {<<b, c>> : b \in FirstBytes, c \in {0, 127, 255}}

\* UDPDecoder::UDPDecoder and a TCPMessageHandler that has framed nothing
ProtocolInit ==
    /\ sent = NoSent
    /\ packet = <<>>
    /\ header = NoHeader
    /\ udpBuffer = <<>>
    /\ udpResult = FALSE
    /\ m_valid = FALSE
    /\ m_type = 1

\* The framing with the length field least significant byte first
encodeMessageLittleEndian(type, message) ==
    /\ sent' = [type |-> type, message |-> message]
    /\ packet' = << toChar(shiftByte(type, 8)), toChar(shiftByte(type, 0)),
                    toChar(shiftByte(Len(message), 0)), toChar(shiftByte(Len(message), 8)),
                    toChar(shiftByte(Len(message), 16)), toChar(shiftByte(Len(message), 24)) >>
                  \o message
    /\ header' = NoHeader
    /\ UNCHANGED <<notProtocol, udpBuffer, udpResult, m_valid, m_type>>

\* TCPMessageHandler::encodeMessage: two chars for the type, four for
\* message.size(), most significant first, then the message.  What was decoded
\* from an earlier packet is dropped with that packet.
encodeMessage(type, message) ==
    /\ sent' = [type |-> type, message |-> message]
    /\ packet' = << toChar(shiftByte(type, 8)), toChar(shiftByte(type, 0)),
                    toChar(shiftByte(Len(message), 24)), toChar(shiftByte(Len(message), 16)),
                    toChar(shiftByte(Len(message), 8)), toChar(shiftByte(Len(message), 0)) >>
                  \o message
    /\ header' = NoHeader
    /\ UNCHANGED <<notProtocol, udpBuffer, udpResult, m_valid, m_type>>

\* TCPMessageHandler::decodeMessageHeader, called with fresh out-parameters:
\* false for fewer than 6 bytes, the out-parameters untouched; otherwise type and length are put together
\* from the unsigned bytes.
decodeMessageHeader(data) ==
    /\ sent # NoSent
    /\ header' = IF Len(data) < 6
                  THEN [NoHeader EXCEPT !.data = data]
                  ELSE [data |-> data,
                        ok |-> TRUE,
                        type |-> toUnsignedChar(data[1]) * 256 + toUnsignedChar(data[2]),
                        length |-> toUnsignedChar(data[3]) * (2 ^ 24)
                                   + toUnsignedChar(data[4]) * (2 ^ 16)
                                   + toUnsignedChar(data[5]) * (2 ^ 8)
                                   + toUnsignedChar(data[6])]
    /\ UNCHANGED <<notProtocol, sent, packet, udpBuffer, udpResult, m_valid, m_type>>

\* The buffers handed to the header decoder: the packet, or its first n
\* bytes, too few to hold a header
HeaderSize == 6
received_buffer(n) == IF n = HeaderSize THEN packet ELSE SubSeq(packet, 1, n)

\* UDPDecoder::decode: false for an empty buffer; otherwise the packet is
\* valid and its type is the low three bits of the first byte.
UDPDecoder_decode(buffer) ==
    /\ udpBuffer' = buffer
    /\ IF Len(buffer) < 1
       THEN /\ m_valid' = FALSE
            /\ udpResult' = FALSE
            /\ UNCHANGED m_type
       ELSE /\ m_valid' = TRUE
            /\ m_type' = buffer[1] % 8
            /\ udpResult' = TRUE
    /\ UNCHANGED <<notProtocol, sent, packet, header>>

\* Control messages are framed and their headers decoded
ProtocolNext ==
    \/ \E type \in TCPMessageType, n \in PayloadSizes : encodeMessage(type, payload(n))
    \/ \E n \in 0..HeaderSize : decodeMessageHeader(received_buffer(n))

\* Voice packets arrive at a UDPDecoder
VoiceNext == \E buffer \in UdpBuffers : UDPDecoder_decode(buffer)

(***************************************************************************)
(* HFBandSimulation: grid locators                                         *)
(***************************************************************************)

\* Angles are counted in parts of a degree small enough for the subsquare
\* (2/24 degree of longitude, 1/24 degree of latitude) and its half.
UnitsPerDegree == 48

\* QChar::toUpper, QChar::toLower and toLatin1 on character codes
QChar_toUpper(c) == IF c \in 97..122 THEN c - 32 ELSE c
QChar_toLower(c) == IF c \in 65..90 THEN c + 32 ELSE c

\* Character codes of 'A', '0' and 'a'
LetterA == 65
Digit0 == 48
Lettera == 97

\* while (longitude < -180) longitude += 360; while (longitude > 180) longitude -= 360
RECURSIVE normalizeLongitude(_)
normalizeLongitude(longitude) ==
    IF longitude < -180 * UnitsPerDegree
    THEN normalizeLongitude(longitude + 360 * UnitsPerDegree)
    ELSE IF longitude > 180 * UnitsPerDegree
    THEN normalizeLongitude(longitude - 360 * UnitsPerDegree)
    ELSE longitude

\* The coordinates the conversions are tried on, in units: poles, equator,
\* points inside squares and subsquares, and a longitude beyond 180 degrees
Latitudes == {-90 * UnitsPerDegree, -33 * UnitsPerDegree - 41, 0, 1,
              60 * UnitsPerDegree + 20, 89 * UnitsPerDegree + 47}
Longitudes == {-180 * UnitsPerDegree, -71 * UnitsPerDegree - 36, 0, 3,
               11 * UnitsPerDegree + 36, 200 * UnitsPerDegree}
Precisions == {4, 6}

NoCoordinates == [latitude |-> 0, longitude |-> 0, precision |-> 0]
NotDecoded == [done |-> FALSE, latitude |-> 0, longitude |-> 0]

GridInit ==
    /\ coordinates = NoCoordinates
    /\ grid = <<>>
    /\ decoded = NotDecoded

\* The locator for a longitude and latitude already brought into range,
\* counted from -180 and -90 degrees
locator(lon, lat, precision) ==
    LET longitudeField == lon \div (20 * UnitsPerDegree)
        latitudeField == lat \div (10 * UnitsPerDegree)
        longitudeSquare == (lon - longitudeField * 20 * UnitsPerDegree) \div (2 * UnitsPerDegree)
        latitudeSquare == (lat - latitudeField * 10 * UnitsPerDegree) \div UnitsPerDegree
        longitudeSubsquare ==
            ((lon - longitudeField * 20 * UnitsPerDegree
                  - longitudeSquare * 2 * UnitsPerDegree) * 12) \div UnitsPerDegree
        latitudeSubsquare ==
            ((lat - latitudeField * 10 * UnitsPerDegree
                  - latitudeSquare * UnitsPerDegree) * 24) \div UnitsPerDegree
    IN  << LetterA + longitudeField, LetterA + latitudeField,
           Digit0 + longitudeSquare, Digit0 + latitudeSquare >>
        \o (IF precision >= 6
            THEN << Lettera + longitudeSubsquare, Lettera + latitudeSubsquare >>
            ELSE <<>>)

\* HFBandSimulation::coordinatesToGrid
coordinatesToGrid(latitude, longitude, precision) ==
    /\ coordinates' = [latitude |-> latitude, longitude |-> longitude, precision |-> precision]
    /\ grid' = locator(normalizeLongitude(longitude) + 180 * UnitsPerDegree,
                        qBound(-90 * UnitsPerDegree, latitude, 90 * UnitsPerDegree)
                            + 90 * UnitsPerDegree,
                        precision)
    /\ decoded' = NotDecoded
    /\ UNCHANGED notGrid

\* The longitude and latitude gridToCoordinates computes for a locator of
\* at least four characters
locatorLongitude(g) ==
    (QChar_toUpper(g[1]) - LetterA) * 20 * UnitsPerDegree + (g[3] - Digit0) * 2 * UnitsPerDegree
    - 180 * UnitsPerDegree
    + (IF Len(g) >= 6 THEN ((QChar_toLower(g[5]) - Lettera) * 2 * UnitsPerDegree) \div 24 ELSE 0)
    + UnitsPerDegree

locatorLatitude(g) ==
    (QChar_toUpper(g[2]) - LetterA) * 10 * UnitsPerDegree + (g[4] - Digit0) * UnitsPerDegree
    - 90 * UnitsPerDegree
    + (IF Len(g) >= 6 THEN ((QChar_toLower(g[6]) - Lettera) * UnitsPerDegree) \div 24 ELSE 0)
    + UnitsPerDegree \div 2

\* HFBandSimulation::gridToCoordinates, applied to the locator made last
gridToCoordinates ==
    /\ coordinates # NoCoordinates
    /\ decoded' = IF Len(grid) < 4
                   THEN [done |-> TRUE, latitude |-> 0, longitude |-> 0]
                   ELSE [done |-> TRUE,
                         latitude |-> locatorLatitude(grid),
                         longitude |-> locatorLongitude(grid)]
    /\ UNCHANGED <<notGrid, coordinates, grid>>

GridNext ==
    \/ \E latitude \in Latitudes, longitude \in Longitudes, precision \in Precisions :
          coordinatesToGrid(latitude, longitude, precision)
    \/ gridToCoordinates

(***************************************************************************)
(* UserStatisticsModule: statistics files                                  *)
(***************************************************************************)

\* The characters a field is made of here: a letter, a space and a tab
Alphabet == {"K", " ", "\t"}
Whitespace == {" ", "\t"}

\* The longest field
MaxFieldLen == 3

\* The fields `characters learned` and `time per character` of a data row
Fields == UNION {[1..k -> Alphabet] : k \in 0..MaxFieldLen}

\* The column names validateStatsFile looks for in the header
RequiredHeaders == {"username", "characters learned", "time per character",
                    "features unlocked", "emailadress"}

\* The headers of the files handed in, as the names they contain
HeaderInputs == {RequiredHeaders, RequiredHeaders \ {"emailadress"}}

\* A data row as lines[i].split(',') gives it, with 5 fields or with 4
dataRow(characters, times, n) ==
    IF n = 5 THEN << <<"K">>, characters, times, <<"K">>, <<"K">> >>
    ELSE << <<"K">>, characters, times, <<"K">> >>

NoFile == [header |-> {}, rows |-> <<>>]
NotWritten == [exists |-> FALSE, header |-> {}, rows |-> <<>>]

StatsInit ==
    /\ fileData = NoFile
    /\ written = NotWritten
    /\ statsResult = FALSE

\* QString::trimmed
RECURSIVE trimmedLeft(_)
trimmedLeft(f) ==
    IF f # <<>> /\ Head(f) \in Whitespace THEN trimmedLeft(Tail(f)) ELSE f

RECURSIVE trimmedRight(_)
trimmedRight(f) ==
    IF f # <<>> /\ f[Len(f)] \in Whitespace
    THEN trimmedRight(SubSeq(f, 1, Len(f) - 1))
    ELSE f

trimmed(f) == trimmedRight(trimmedLeft(f))

\* QString::split(sep, Qt::SkipEmptyParts) for the separators of seps: the
\* tokens of f, token being the one that is being read
RECURSIVE splitFrom(_, _, _)
splitFrom(f, seps, token) ==
    IF f = <<>>
    THEN (IF token = <<>> THEN <<>> ELSE <<token>>)
    ELSE IF Head(f) \in seps
    THEN (IF token = <<>> THEN <<>> ELSE <<token>>) \o splitFrom(Tail(f), seps, <<>>)
    ELSE splitFrom(Tail(f), seps, Append(token, Head(f)))

split(f, seps) == splitFrom(f, seps, <<>>)

\* QStringList::join(" ")
RECURSIVE join(_)
join(tokens) ==
    IF tokens = <<>> THEN <<>>
    ELSE IF Len(tokens) = 1 THEN tokens[1]
    ELSE tokens[1] \o <<" ">> \o join(Tail(tokens))

\* The checks of validateStatsFile on one data row
validRow(fields) ==
    /\ Len(fields) >= 5
    /\ trimmed(fields[2]) # <<>> =>
          Len(split(trimmed(fields[2]), {" "})) = Len(split(trimmed(fields[3]), {" "}))

\* UserStatisticsModule::validateStatsFile: the header holds the five column
\* names, every data row has five fields, and a row whose characters field
\* is not empty has as many times as characters.
validateStatsFile(data) ==
    /\ RequiredHeaders \subseteq data.header
    /\ \A i \in 1..Len(data.rows) : validRow(data.rows[i])

\* The times of a row brought to the number of its characters: "0" is
\* appended or the last entries are removed
adjusted(times, n) ==
    [i \in 1..n |-> IF i <= Len(times) THEN times[i] ELSE <<"0">>]

\* processUserStatsFile on one data row: the characters and times fields are
\* rewritten when the characters field is not empty
formatted(fields) ==
    IF trimmed(fields[2]) = <<>> THEN fields
    ELSE [fields EXCEPT
            ![2] = join(split(trimmed(fields[2]), {" "})),
            ![3] = join(adjusted(split(trimmed(fields[3]), {" "}),
                                 Len(split(trimmed(fields[2]), {" "}))))]

\* UserStatisticsModule::processUserStatsFile: the directories are made, the
\* content is validated, every data row is formatted and the file written.
\* One file is handed in.
processUserStatsFile(data, directories, opens) ==
    /\ fileData = NoFile
    /\ fileData' = data
    /\ IF directories /\ validateStatsFile(data) /\ opens
       THEN /\ written' = [exists |-> TRUE,
                            header |-> data.header,
                            rows |-> [i \in 1..Len(data.rows) |-> formatted(data.rows[i])]]
            /\ statsResult' = TRUE
       ELSE /\ statsResult' = FALSE
            /\ UNCHANGED written
    /\ UNCHANGED notStats

StatsNext ==
    /\ fileData = NoFile
    /\ \E h \in HeaderInputs, characters \in Fields, times \in Fields, n \in {4, 5},
          rows \in 0..1, directories \in BOOLEAN, opens \in BOOLEAN :
           processUserStatsFile(
               [header |-> h,
                rows |-> IF rows = 0 THEN <<>> ELSE <<dataRow(characters, times, n)>>],
               directories, opens)

(***************************************************************************)
(* modules/PropagationModule: the mutex of the module                      *)
(***************************************************************************)

\* The methods of the module that open with QMutexLocker locker(&m_mutex)
ModuleMethods ==
    {"calculatePropagation", "canCommunicate", "getSignalQuality", "getFadingEffects",
     "calculateSignalStrength", "recommendBand", "updateAudioRouting", "updateChannelLinks",
     "sendBandRecommendations", "updatePropagation", "onPropagationUpdated", "sendMessage"}

\* The thread the module and its HFBandSimulation live in: a signal of the
\* simulation emitted on this thread runs the module's slot as a direct call.
moduleThread == "main"

\* The locking methods of the module that a method calls, in the order of
\* its body, for a pair of users that both have a grid locator or not, on
\* thread t.  updatePropagation reaches onPropagationUpdated through
\* m_hfBandSimulation.updatePropagation() and emit propagationUpdated().
callees(method, grids, t) ==
    CASE method = "canCommunicate" -> <<"calculatePropagation">>
      [] method = "getSignalQuality" -> <<"calculatePropagation">>
      [] method = "calculatePropagation" ->
            IF grids THEN <<"calculateSignalStrength">> ELSE <<>>
      [] method = "updateAudioRouting" ->
            IF grids THEN <<"getSignalQuality", "getFadingEffects">>
            ELSE <<"getSignalQuality">>
      [] method = "updatePropagation" ->
            IF t = moduleThread THEN <<"onPropagationUpdated">> ELSE <<>>
      [] method = "onPropagationUpdated" -> <<"updateChannelLinks">>
      [] method = "sendBandRecommendations" -> <<"sendMessage">>
      [] OTHER -> <<>>

\* The module after its constructor: the mutex free, no thread inside
ModuleInit ==
    /\ mutexOwner = "none"
    /\ frames = [t \in Threads |-> <<>>]

\* The innermost method thread t is in
top(t) == frames[t][Len(frames[t])]

\* A thread calls a method of the module from outside
callMethod(t, method, grids) ==
    /\ frames[t] = <<>>
    /\ frames' = [frames EXCEPT ![t] =
                     <<[method |-> method, grids |-> grids, locked |-> FALSE, next |-> 1]>>]
    /\ UNCHANGED <<notModule, mutexOwner>>

\* QMutexLocker locker(&m_mutex) at the head of a method: m_mutex is a plain
\* QMutex, so the lock is taken only when no thread holds it, the calling
\* thread included.
QMutexLocker_lock(t) ==
    /\ frames[t] # <<>>
    /\ ~top(t).locked
    /\ mutexOwner = "none"
    /\ mutexOwner' = t
    /\ frames' = [frames EXCEPT ![t][Len(frames[t])].locked = TRUE]
    /\ UNCHANGED notModule

\* The body of a method calls the next locking method of the module
invoke(t) ==
    /\ frames[t] # <<>>
    /\ top(t).locked
    /\ top(t).next <= Len(callees(top(t).method, top(t).grids, t))
    /\ frames' = [frames EXCEPT ![t] =
                     Append([@ EXCEPT ![Len(@)].next = @ + 1],
                            [method |-> callees(top(t).method, top(t).grids, t)[top(t).next],
                             grids |-> top(t).grids, locked |-> FALSE, next |-> 1])]
    /\ UNCHANGED <<notModule, mutexOwner>>

\* A method returns: its QMutexLocker unlocks m_mutex
returnFrom(t) ==
    /\ frames[t] # <<>>
    /\ top(t).locked
    /\ top(t).next > Len(callees(top(t).method, top(t).grids, t))
    /\ frames' = [frames EXCEPT ![t] = SubSeq(@, 1, Len(@) - 1)]
    /\ mutexOwner' = "none"
    /\ UNCHANGED notModule

\* m_updateTimer after initialize has started it (line 95): running, the
\* first interval not yet elapsed
TimerInit == timerDue = FALSE /\ duringUpdate = FALSE

\* The periodic update is in progress: the module's thread is inside
\* updatePropagation
updating ==
    /\ frames[moduleThread] # <<>>
    /\ frames[moduleThread][1].method = "updatePropagation"

\* The interval of m_updateTimer elapses, whatever the module's thread is
\* doing: the timer is due until the event loop of that thread emits
\* timeout().  Intervals that elapse while it is due add nothing.
timerExpires ==
    /\ ~timerDue
    /\ timerDue' = TRUE
    /\ duringUpdate' = updating
    /\ UNCHANGED notTimer

\* The event loop of the module's thread, which runs when the thread is in
\* no method, emits timeout() of the due timer: the connection of line 29
\* calls updatePropagation.  No statement of the module tests whether an
\* update is running or drops a due tick.
timeout ==
    /\ timerDue
    /\ frames[moduleThread] = <<>>
    /\ timerDue' = FALSE
    /\ duringUpdate' = FALSE
    /\ frames' = [frames EXCEPT ![moduleThread] =
                     <<[method |-> "updatePropagation", grids |-> FALSE, locked |-> FALSE,
                        next |-> 1]>>]
    /\ UNCHANGED <<notModuleNorTimer, mutexOwner>>

\* The module with its timer
TimerNext ==
    \/ timerExpires
    \/ timeout
    \/ \E t \in Threads, method \in ModuleMethods, grids \in BOOLEAN :
          callMethod(t, method, grids)
    \/ \E t \in Threads : QMutexLocker_lock(t)
    \/ \E t \in Threads : invoke(t)
    \/ \E t \in Threads : returnFrom(t)

ModuleNext ==
    \/ \E t \in Threads, method \in ModuleMethods, grids \in BOOLEAN :
          callMethod(t, method, grids)
    \/ \E t \in Threads : QMutexLocker_lock(t)
    \/ \E t \in Threads : invoke(t)
    \/ \E t \in Threads : returnFrom(t)

(***************************************************************************)
(* Specifications                                                          *)
(***************************************************************************)

\* Server::initialize and registerModules: the objects as constructed
Init == ClmInit /\ HfInit /\ UdmInit /\ TableInit /\ BusInit /\ PoolInit /\ ChannelInit /\ DbInit
        /\ ProtocolInit /\ GridInit /\ StatsInit /\ ModuleInit /\ NestInit
        /\ LockInit /\ TimerInit /\ RegInit

\* The parts that take no step are those of a server built with
\* modules/PropagationModule.cpp and started in winter.
QuietPropagation == variant = "modules" /\ m_season = 0

\* One thread calling the listener manager, with slots that call back
SpecListenerLock == Init /\ [][LockNext]_vars

\* The registry of the module manager: registrations, then the shutdown
SpecRegistry == Init /\ [][RegNext]_vars

\* The propagation module called by two threads and by its timer
SpecTimer == Init /\ [][TimerNext]_vars

\* The propagation engine with both threads.
SpecPropagation == Init /\ [][HfNext]_vars

\* The state-changing thread alone; once inside a setter or an update it
\* keeps running as long as it can take a step.
UpdaterNext == UpdaterCall \/ UpdaterStep

SpecNotification ==
    /\ Init
    /\ [][UpdaterNext]_vars
    /\ WF_vars(UpdaterStep)

Next == ClmNext \/ LockNext \/ TimerNext \/ RegNext \/ HfNext \/ UdmNext \/ TableNext \/ BusNext \/ NestedNext \/ PoolNext \/ DbConcurrentNext \/ DbNext
        \/ ProtocolNext \/ VoiceNext \/ GridNext \/ StatsNext \/ ModuleNext

Spec == Init /\ [][Next]_vars

\* The listener manager alone, beside an idle propagation engine.
ListenersInit == Init /\ QuietPropagation

SpecListeners == ListenersInit /\ [][ClmNext]_vars

\* The integers a caller, a setting or the configuration file can hold, which
\* the setters receive as they are (QVariant::toInt, QSettings::value).
IntInputs == {-1, 0, 3, 10, 59, 120, 301}

\* The state-changing thread called with any of these integers, by the
\* setters directly (as PropagationModule::initialize does with the
\* configured values) or through setSetting.
RangeNext ==
    \/ \E sfi \in IntInputs : setSolarFluxIndex(sfi)
    \/ \E k \in IntInputs : setKIndex(k)
    \/ \E season \in IntInputs : setSeason(season)
    \/ \E key \in {"solarFluxIndex", "kIndex", "other"}, value \in IntInputs :
          setSetting(key, value)
    \/ UpdaterStep

SpecRanges == Init /\ [][RangeNext]_vars

\* The read-only methods of HFBandSimulation in every ionospheric state.
SpecTables == Init /\ [][TableNext]_vars

\* The user data module alone.
UserDataInit == Init /\ QuietPropagation

SpecUserData == UserDataInit /\ [][UdmNext]_vars

\* The module bus alone.  A thread inside a ModuleManager method, the worker
\* threads and the event loop of the manager's thread keep running as long
\* as they can take a step, and a task of the pool ends, by returning or by
\* throwing; nothing makes a slot return.
BusStart == Init /\ QuietPropagation

SpecBus ==
    /\ BusStart
    /\ [][BusNext]_vars
    /\ \A t \in Threads : WF_vars(CallerStep(t))
    /\ \A w \in Workers : WF_vars(WorkerStep(w))
    /\ WF_vars(processEvents)

\* The manager called by the threads and by the functions of its tasks,
\* every thread scheduled fairly; a function that can go on does so.
SpecNested ==
    /\ BusStart
    /\ [][NestedNext]_vars
    /\ \A t \in Threads : WF_vars(waitForFutures(t))
    /\ \A w \in Workers : WF_vars(WorkerStep(w))

\* The pool used directly, every thread scheduled fairly: a worker that can
\* take, run, wait or return does so, a task's body ends, and a caller
\* inside waitForDone or the destructor goes on when it can.
SpecPool ==
    /\ BusStart
    /\ [][PoolNext]_vars
    /\ \A t \in Threads : WF_vars(PoolCallerStep(t))
    /\ \A w \in Workers : WF_vars(WorkerStep(w) \/ exitWorker(w))

\* The state-changing thread of the propagation engine beside the channels
\* that Server::setupChannels has set up.
SpecLinks == Init /\ [][UpdaterNext]_vars

\* The database wrapper with one calling thread
DbStart == Init /\ QuietPropagation

SpecDatabase == DbStart /\ [][DbNext]_vars

\* The database wrapper with two calling threads
SpecDatabaseConcurrent == DbStart /\ [][DbConcurrentNext]_vars

\* The protocol helpers beside a server at rest
ProtocolStart == Init /\ QuietPropagation

SpecProtocol == ProtocolStart /\ [][ProtocolNext]_vars

SpecVoice == ProtocolStart /\ [][VoiceNext]_vars

\* Locators are made from coordinates and read back
SpecGrid == ProtocolStart /\ [][GridNext]_vars

\* Two threads call the methods of the modules/ PropagationModule
SpecModule == ProtocolStart /\ [][ModuleNext]_vars

\* Statistics files are handed to the statistics module
SpecStats == ProtocolStart /\ [][StatsNext]_vars

(***************************************************************************)
(* Claims about the listener manager                                       *)
(***************************************************************************)

\* C4: after any sequence of addListener, removeListener, clearListeners,
\* clearListenedChannels and clear, user u is in the channel-to-users set of
\* channel c exactly when c is in the user-to-channels set of u.
C4_IndicesAgree ==
    \A u \in Users, c \in Channels :
        (u \in getListeners(c)) <=> (c \in getListenedChannels(u))

\* C4 witness: a removal has just been carried out and left another binding.
C4_Witness ==
    /\ \E s \in emitted : s[1] = "listenerRemoved"
    /\ \E u \in Users, c \in Channels :
          u \in getListeners(c) /\ c \in getListenedChannels(u)

\* C8 (as stated): addListener(u, c) on a pair that is already bound leaves
\* both indices and the volume adjustment as they were and has no other
\* observable effect, so it emits no signal.
C8_SecondAddIsNoOp ==
    [][\A u \in Users, c \in Channels :
          (isListening(u, c) /\ addListener(u, c))
             => /\ m_channelListeners' = m_channelListeners
                /\ m_userListenedChannels' = m_userListenedChannels
                /\ m_listenerVolumeAdjustments' = m_listenerVolumeAdjustments
                /\ emitted' = {}]_clmVars

\* C9 (as stated): addListener(U, C) on a pair that is not bound inserts the
\* pair into both indices and leaves the binding with the identity volume
\* adjustment (factor 1 for U), whatever preceded the call.
C9_AddInitialisesIdentity ==
    [][\A u \in Users, c \in Channels :
          (~isListening(u, c) /\ addListener(u, c))
             => /\ u \in MapValue(m_channelListeners', c, {})
                /\ c \in MapValue(m_userListenedChannels', u, {})
                /\ <<u, c>> \in DOMAIN m_listenerVolumeAdjustments'
                /\ getAdjustmentFactor(m_listenerVolumeAdjustments'[<<u, c>>], u)
                      = DEFAULT_ADJUSTMENT_FACTOR]_clmVars

\* C10: disableListener(U, C) on an existing binding sets the volume factor
\* for U to 0 and keeps the binding: isListening(U, C) still holds and both
\* indices are unchanged.
C10_DisableKeepsBinding ==
    [][\A u \in Users, c \in Channels :
          (isListening(u, c) /\ disableListener(u, c))
             => /\ getAdjustmentFactor(m_listenerVolumeAdjustments'[<<u, c>>], u) = 0
                /\ u \in MapValue(m_channelListeners', c, {})
                /\ m_channelListeners' = m_channelListeners
                /\ m_userListenedChannels' = m_userListenedChannels]_clmVars

\* C10 witness: a bound listener has just been disabled (only disableListener
\* leaves a Multiplicative adjustment behind).
C10_Witness ==
    \E u \in Users, c \in Channels :
        /\ isListening(u, c)
        /\ emitted = {<<"listenerVolumeAdjustmentChanged", u, c>>}
        /\ getListenerVolumeAdjustment(u, c).type = "Multiplicative"
        /\ getAdjustmentFactor(getListenerVolumeAdjustment(u, c), u) = 0

\* C23: every stored volume adjustment has a type in {Multiplicative,
\* Logarithmic} and, for its listener, a factor from 0 to 10.
C23_AdjustmentWellFormed ==
    \A key \in DOMAIN m_listenerVolumeAdjustments :
        /\ m_listenerVolumeAdjustments[key].type \in {"Multiplicative", "Logarithmic"}
        /\ getAdjustmentFactor(m_listenerVolumeAdjustments[key], key[1])
               \in MIN_ADJUSTMENT_FACTOR..MAX_ADJUSTMENT_FACTOR

\* C38: every (user, channel) key that has a stored volume adjustment is a
\* current listener binding.
C38_AdjustmentsOnlyForBindings ==
    \A key \in DOMAIN m_listenerVolumeAdjustments : isListening(key[1], key[2])

\* C34: whenever the manager is about to emit a signal, or a slot that was
\* called by one of its signals is about to take the lock, nobody holds the
\* lock: every signal is emitted with the lock released, and a call made from
\* a slot gets the lock.
C34_EmitsWithLockReleased ==
    clmStack # <<>> /\ innermost.pc \in {"emit", "lock"} => m_rwLock = "unlocked"

\* A slot called by a signal of a write method has called back into the
\* manager and holds the write lock.
C34_Witness ==
    /\ Len(clmStack) = 2
    /\ clmStack[1].pc = "emit"
    /\ clmStack[2].pc = "locked"
    /\ m_rwLock = "write"

(***************************************************************************)
(* Claims about the propagation engine                                     *)
(***************************************************************************)

bothHaveGrid(user1, user2) == maidenheadgrid(user1) # "" /\ maidenheadgrid(user2) # ""

\* C1: a signal-strength lookup that starts after a change of SFI, K-index
\* or season was stored never returns an entry that was cached before that
\* change.
C1_NoLookupReturnsOldEntry ==
    [][\A p \in SessionPairs :
          (/\ startQuery("canCommunicate", p[1], p[2])
           /\ bothHaveGrid(p[1], p[2])
           /\ <<maidenheadgrid(p[1]), maidenheadgrid(p[2])>> \in DOMAIN m_signalStrengthCache)
          => ~m_signalStrengthCache[<<maidenheadgrid(p[1]), maidenheadgrid(p[2])>>].old]_vars

\* C2: whenever no change is between its store and its clear, every entry of
\* the cache was computed from the SFI, K-index and season that are current,
\* also when the computation overlapped a change.
C2_EntriesFromCurrentState ==
    upc # "clear" =>
        \A k \in DOMAIN m_signalStrengthCache : ~m_signalStrengthCache[k].stale

\* C3: whenever no insertion is half done, the cache holds (a, b) if and only
\* if it holds (b, a), with the same value.
C3_CacheSymmetric ==
    wpc # "insert2" =>
        \A k \in DOMAIN m_signalStrengthCache :
            /\ <<k[2], k[1]>> \in DOMAIN m_signalStrengthCache
            /\ m_signalStrengthCache[<<k[2], k[1]>>].strength = m_signalStrengthCache[k].strength

\* C5: for a pair that both have a grid locator, canCommunicate is false and
\* updateAudioRouting blocks the audio exactly when the signal strength is
\* below 0.05 (500 in units of 1/10000).
C5_BlockedExactlyBelowThreshold ==
    bothHaveGrid(wResult.user1, wResult.user2) =>
        /\ wResult.method = "canCommunicate" => (wResult.value <=> ~(wResult.strength < 500))
        /\ wResult.method = "updateAudioRouting" => (wResult.value <=> wResult.strength < 500)

\* A pair with grid locators was blocked by updateAudioRouting for a strength
\* between 0 and 0.05.
C5_Witness ==
    /\ wResult.method = "updateAudioRouting"
    /\ bothHaveGrid(wResult.user1, wResult.user2)
    /\ wResult.value
    /\ wResult.strength > 0
    /\ wResult.strength < 500

\* C6: when neither user has a grid locator the pair is able to communicate
\* and updateAudioRouting blocks nothing.
C6_NoGridPassesThrough ==
    (/\ wResult.method # "none"
     /\ maidenheadgrid(wResult.user1) = ""
     /\ maidenheadgrid(wResult.user2) = "") =>
        /\ wResult.method = "canCommunicate" => wResult.value
        /\ wResult.method = "updateAudioRouting" => ~wResult.value

\* C7: every stored change of SFI, K-index or season is eventually followed
\* by the propagationUpdated slot of every subscriber having been run.
C7_ChangeAnnounced == unannounced ~> (notified = Subscribers)

\* C31: the accesses to the pair signal-strength cache exclude each other:
\* the querying thread is never at an insertion of calculateSignalStrength
\* while the state-changing thread is at m_signalStrengthCache.clear().
\* Stated for the copy of PropagationModule.cpp in src/murmur/, which passes
\* both calls on to the simulation without a lock.
C31_CacheAccessExclusive ==
    variant = "murmur" => ~(upc = "clear" /\ wpc \in {"insert1", "insert2"})

\* C32: when the propagationUpdated notification of a change is being
\* delivered, the cache holds no entry that was cached before the change and
\* no entry computed from the values the change replaced.
C32_ChangeBeforeNotification ==
    upc \in {"emitModule", "emitServer"} =>
        \A k \in DOMAIN m_signalStrengthCache :
            ~m_signalStrengthCache[k].old /\ ~m_signalStrengthCache[k].stale

(***************************************************************************)
(* Claims about the user data module                                       *)
(***************************************************************************)

\* C11: unregisterUser(id) for an id that is not registered returns false,
\* leaves the three caches as they are and emits no signal.
C11_UnregisterUnknownIsNoOp ==
    [][\A id \in UserIdInputs :
          (id \notin DOMAIN m_userNameCache /\ unregisterUser(id))
          => /\ udmResult' = <<"unregisterUser", id, FALSE>>
             /\ m_userNameCache' = m_userNameCache
             /\ m_userIDCache' = m_userIDCache
             /\ m_userPropertiesCache' = m_userPropertiesCache
             /\ udmEmitted' = {}]_vars

\* unregisterUser failed for an id while another user was registered.
C11_Witness ==
    /\ udmResult[1] = "unregisterUser"
    /\ udmResult[3] = FALSE
    /\ udmResult[2] \notin DOMAIN m_userNameCache
    /\ m_userNameCache # EmptyMap
    /\ m_userIDCache # EmptyMap

\* C12: the id-to-name and name-to-id caches are mutual inverses, so every
\* registered name resolves to an id that belongs to it alone.
C12_IdsUnique ==
    /\ \A id \in DOMAIN m_userNameCache :
          getRegisteredUserID(m_userNameCache[id]) = id
    /\ \A name \in DOMAIN m_userIDCache :
          getRegisteredUserName(m_userIDCache[name]) = name

\* C13: no two registered names are equal ignoring case.
C13_NamesUniqueIgnoringCase ==
    \A n1, n2 \in DOMAIN m_userIDCache : toLower(n1) = toLower(n2) => n1 = n2

(***************************************************************************)
(* Claims about the ionospheric state and the band tables                  *)
(***************************************************************************)

\* C14: SFI is in 60..300, the K-index in 0..9 and the season in 0..3,
\* whatever integers the setters, setSetting and the configuration pass.
C14_StateInRange ==
    /\ m_solarFluxIndex \in 60..300
    /\ m_kIndex \in 0..9
    /\ m_season \in 0..3

\* The band ladder for long paths: band (m) and the frequency (kHz) the MUF
\* has to exceed for it.
BandLadder ==
    <<<<10, 28000>>, <<12, 24000>>, <<15, 21000>>, <<17, 18000>>,
      <<20, 14000>>, <<30, 10000>>, <<40, 7000>>, <<80, 3500>>>>

\* C15: recommendBand(distance) is 20 below 500 km; 15, 20 or 40 for MUF
\* above 21, above 14 or at most 14 MHz from 500 to below 2000 km; and from
\* 2000 km on the first band of the ladder whose threshold the MUF exceeds,
\* 160 if the MUF is at most 3.5 MHz.
C15_BandTable ==
    tableResult.method = "recommendBand" =>
        LET distance == tableResult.argument
            muf == tableResult.muf
            exceeded == {i \in 1..Len(BandLadder) : muf > BandLadder[i][2]}
        IN  /\ distance < 500 => tableResult.value = 20
            /\ (distance >= 500 /\ distance < 2000) =>
                  /\ muf > 21000 => tableResult.value = 15
                  /\ (muf <= 21000 /\ muf > 14000) => tableResult.value = 20
                  /\ muf <= 14000 => tableResult.value = 40
            /\ distance >= 2000 =>
                  /\ exceeded # {} =>
                        \E i \in exceeded :
                            /\ \A j \in exceeded : i <= j
                            /\ tableResult.value = BandLadder[i][1]
                  /\ muf <= 3500 => tableResult.value = 160

\* recommendBand returned 17 m for a long path.
C15_Witness ==
    /\ tableResult.method = "recommendBand"
    /\ tableResult.argument >= 2000
    /\ tableResult.muf > 18000
    /\ tableResult.muf <= 21000
    /\ tableResult.value = 17

\* C16: for every signal strength in [0, 1] the packet loss that
\* getFadingEffects returns is in [0, 0.95].
C16_PacketLossAtMost95 ==
    tableResult.method = "getFadingEffects" =>
        (tableResult.value >= 0 /\ tableResult.value <= 9500)


(***************************************************************************)
(* Claims about the module bus                                             *)
(***************************************************************************)

\* C17: a thread that has entered broadcastEvent or broadcastEventParallel
\* returns from it whether or not the slots the event reaches return.
C17_PublisherReturns ==
    \A t \in Threads : (callerPc[t] # "idle") ~> (callerPc[t] = "idle")

ParallelMethods == {"broadcastEventParallel", "executeOnAllModules"}

\* The task of call id for module m has run: the event is posted to (or
\* taken by) the manager's thread, or func was called on the module.
handedOver(m, id) ==
    \/ id \in executed[m]
    \/ \E i \in DOMAIN received[m] : received[m][i] = id
    \/ \E i \in DOMAIN eventQueue : eventQueue[i] = [module |-> m, id |-> id]

\* C18: every parallel fan-out that has been started returns, with the task
\* of every registered module run, whichever of the tasks throw.
C18_FanOutCompletes ==
    \A id \in 1..MaxCalls :
        (history[id].method \in ParallelMethods)
            ~> (/\ history[id].returned
                /\ \A m \in history[id].modules : handedOver(m, id))

\* A fan-out has returned in which the task of one module threw and the
\* tasks of the other modules ran.
C18_Witness ==
    \E id \in 1..MaxCalls, failed \in Modules :
        /\ history[id].returned
        /\ <<failed, id>> \in threw
        /\ \A m \in history[id].modules \ {failed} :
               handedOver(m, id) /\ <<m, id>> \notin threw

\* C19: of two events of which the first was published, and its broadcast
\* had returned, before the second was published, every module's slot is
\* invoked with the first before the second.
C19_PublishOrderKept ==
    \A m \in Modules : \A i, j \in DOMAIN received[m] :
        received[m][i] \in history[received[m][j]].after => i < j

\* C39: a call of registerModule with the null pointer or with a module
\* whose name is registered returns false, leaves the registry as it was, so
\* that getModule still returns the module registered first, and emits
\* nothing.
C39_RejectedRegistrationChangesNothing ==
    [][(/\ registerCall'.n # registerCall.n
        /\ \/ registerCall'.module = "null"
           \/ IServerModule_name(registerCall'.module) \in DOMAIN registry)
       => /\ ~registerCall'.returned
          /\ registry' = registry
          /\ registerCall'.emitted = {}]_vars

\* A second module with a registered name was rejected and getModule
\* returns the first
C39_Witness ==
    /\ registerCall.module = "userDataModule2"
    /\ ~registerCall.returned
    /\ getModule("UserDataModule") = "userDataModule"

\* C40: shutdownAllModules shuts the registered modules down in the reverse
\* of the order of their registration, each once.
C40_ShutdownInReverseRegistrationOrder ==
    shutdownOrder # NotShutDown => shutdownOrder = backwards(registered)

(***************************************************************************)
(* Claims about the channels                                               *)
(***************************************************************************)

\* C20: no step of a propagation update, the updateChannelLinks of its slots
\* included, changes the permanent links of any channel.
C20_PermanentLinksKept == [][qsPermLinks' = qsPermLinks]_vars

\* An update has run through both slots, each ending in updateChannelLinks,
\* and the configured links are there.
C20_Witness ==
    /\ notified = Subscribers
    /\ upc = "idle"
    /\ uop = "none"
    /\ qsPermLinks = setupChannels(ChannelIds, ConfiguredLinks)
    /\ \A id \in ChannelIds : qsPermLinks[id] # {}


(***************************************************************************)
(* Claims about the database wrapper                                       *)
(***************************************************************************)

\* C21: when setUserProperties has returned, the committed properties of the
\* user are the new set if it returned true and the set from before the call
\* if it returned false.
C21_AllOrNothing ==
    \A t \in DbThreads :
        (dbPc[t] = "idle" /\ dbCall[t].method = "setUserProperties") =>
            /\ dbCall[t].result = TRUE =>
                   committed.user_properties = rowsOf(dbCall[t].argument)
            /\ dbCall[t].result = FALSE =>
                   committed.user_properties = dbCall[t].previous

\* The results of the calls that have returned, in some order one after the
\* other: a setUserProperties that returned true leaves its rows, a
\* storeTexture leaves one row with its texture.
lastOf(method) ==
    {t \in DbThreads : dbCall[t].method = method /\ dbCall[t].result = TRUE}

\* C22: once every thread has made a single call and has returned from it,
\* the committed tables are those that the calls leave when they run one
\* after the other in some order.
C22_Serializable ==
    (\A t \in DbThreads : dbPc[t] = "idle" /\ dbCalls[t] = 1) =>
        /\ lastOf("setUserProperties") # {} =>
               \E t \in lastOf("setUserProperties") :
                   committed.user_properties = rowsOf(dbCall[t].argument)
        /\ lastOf("setUserProperties") = {} => committed.user_properties = {}
        /\ lastOf("storeTexture") # {} =>
               \E t \in lastOf("storeTexture") :
                   committed.textures = <<dbCall[t].argument>>

(***************************************************************************)
(* Claims about the thread pool                                            *)
(***************************************************************************)

\* C24: when ThreadPool::waitForDone has returned, every task that was
\* enqueued before the call has finished executing, whatever the order in
\* which the workers took and completed the tasks.
C24_WaitForDoneCovers ==
    \A t \in Threads :
        waitForDoneCall[t].returned => waitForDoneCall[t].before \subseteq completed

\* A waitForDone that had tasks to wait for has returned
C24_Witness ==
    \E t \in Threads :
        /\ waitForDoneCall[t].returned
        /\ Cardinality(waitForDoneCall[t].before) = MaxTasks

\* The destructor has returned on some thread
destroyed == \E t \in Threads : callerPc[t] = "destroyed"

\* C25: the ThreadPool destructor returns only after every worker thread has
\* exited, and once it has set the stop flag it does return, whatever is
\* queued and however the stop signal interleaves with the workers.
C25_DestructorJoinsAll ==
    /\ [](destroyed => \A w \in Workers : workerTask[w] = Terminated)
    /\ (m_stop ~> destroyed)

\* The destructor has returned after the workers ran every queued task
C25_Witness ==
    /\ destroyed
    /\ Cardinality(completed) = MaxTasks

\* The number of times a task is in the queue, and the workers that have
\* taken it and not finished it
timesQueued(e) ==
    Cardinality({i \in DOMAIN m_tasks : <<m_tasks[i].module, m_tasks[i].id>> = e})
runningOn(e) ==
    {w \in Workers : workerTask[w] \notin {NoTask, Blocked, Terminated}
                       /\ <<workerTask[w].module, workerTask[w].id>> = e}

\* A task is in one place: in the queue once, taken by one worker, or done
inOnePlace(e) ==
    timesQueued(e) + Cardinality(runningOn(e)) + (IF e \in completed THEN 1 ELSE 0) = 1

\* C36: every task that enqueue accepted is at any time either in the queue
\* once, with exactly one worker, or finished, and it is finished in the end:
\* it runs once, also when the destructor starts while it is queued.
C36_EveryTaskRunsOnce ==
    /\ [](\A e \in enqueued : inOnePlace(e))
    /\ \A id \in 1..MaxTasks :
          (<<"none", id>> \in enqueued) ~> (<<"none", id>> \in completed)

\* The destructor has started with a task in the queue, after another task
\* has run
C36_Witness ==
    /\ m_stop
    /\ m_tasks # <<>>
    /\ completed # {}

\* C37: a call of enqueue on a pool whose stop flag is set ends with the
\* exception and leaves the queue and the set of accepted tasks as they were.
C37_EnqueueOnStoppedPoolThrows ==
    [][m_stop /\ nextTask' # nextTask =>
          /\ <<"none", nextTask>> \in rejected'
          /\ m_tasks' = m_tasks
          /\ enqueued' = enqueued]_vars

\* enqueue has thrown for a task, which is in no queue and with no worker
C37_Witness ==
    \E e \in rejected : e \notin enqueued /\ timesQueued(e) = 0 /\ runningOn(e) = {}

\* C33: a task of the pool that has called executeOnModule and waits for the
\* task it enqueued gets its result: the call returns in the end, whatever
\* the other workers are doing.
C33_NestedCallReturns ==
    \A w \in Workers : (futures[w] # {}) ~> (futures[w] = {})

(***************************************************************************)
(* Claims about the wire protocol                                          *)
(***************************************************************************)

\* The value of a big-endian field of the packet: n bytes from position i
RECURSIVE bigEndian(_, _, _)
bigEndian(bytes, i, n) ==
    IF n = 0 THEN 0
    ELSE bigEndian(bytes, i, n - 1) * 256 + toUnsignedChar(bytes[i + n - 1])

\* C26: for every message type and payload the packet of encodeMessage is a
\* 2-byte big-endian type, a 4-byte big-endian length and the payload;
\* decodeMessageHeader of that packet gives the type and the payload size
\* back; and a buffer of fewer than 6 bytes is rejected.
C26_FramingRoundTrips ==
    /\ sent # NoSent =>
          /\ Len(packet) = 6 + Len(sent.message)
          /\ bigEndian(packet, 1, 2) = sent.type
          /\ bigEndian(packet, 3, 4) = Len(sent.message)
          /\ SubSeq(packet, 7, Len(packet)) = sent.message
    /\ header.ok = (Len(header.data) >= 6)
    /\ (header.ok /\ header.data = packet) =>
          /\ header.type = sent.type
          /\ header.length = Len(sent.message)

\* A packet whose length field needs its second byte has been decoded
C26_Witness ==
    /\ header.ok
    /\ header.data = packet
    /\ header.length = 300
    /\ header.type = 30

\* C27: a voice packet whose 3-bit type is none of VoiceData, Ping and
\* VoiceOpus is reported invalid by UDPDecoder::decode.
C27_UnknownTypeDiscarded ==
    (udpBuffer # <<>> /\ (udpBuffer[1] % 8) \notin UDPMessageType) =>
        (~udpResult /\ ~m_valid)

(***************************************************************************)
(* Claims about grid locators                                              *)
(***************************************************************************)

\* The distance of two angles
distance(a, b) == IF a < b THEN b - a ELSE a - b

\* C28: for a latitude within -90..90 and a longitude within -180..180,
\* reading back the 6-character locator of (lat, lon) gives a point within
\* 1/48 degree of lat and 1/24 degree of lon.
C28_LocatorRoundTrip ==
    ( /\ decoded.done
      /\ coordinates.precision = 6
      /\ distance(coordinates.latitude, 0) <= 90 * UnitsPerDegree
      /\ distance(coordinates.longitude, 0) <= 180 * UnitsPerDegree )
    => /\ distance(decoded.latitude, coordinates.latitude) * 48 <= UnitsPerDegree
       /\ distance(decoded.longitude, coordinates.longitude) * 24 <= UnitsPerDegree

(***************************************************************************)
(* Claims about the statistics module                                      *)
(***************************************************************************)

\* C29: in every file that processUserStatsFile has accepted and written,
\* each data row has as many whitespace-separated tokens in its
\* `characters learned` field as in its `time per character` field.
C29_TimesMatchCharacters ==
    written.exists =>
        \A i \in 1..Len(written.rows) :
            Len(split(written.rows[i][2], Whitespace))
                = Len(split(written.rows[i][3], Whitespace))

(***************************************************************************)
(* Claims about the mutex of the propagation module                        *)
(***************************************************************************)

\* C30: no thread ever tries to lock the mutex of the modules/
\* PropagationModule while it holds it, so every public operation returns.
C30_NoSelfDeadlock ==
    \A t \in Threads :
        ~(frames[t] # <<>> /\ ~top(t).locked /\ mutexOwner = t)

\* C35: a tick of the update timer that arrives while an update is in
\* progress is dropped: no tick is kept waiting to start another update
\* while one is running.
C35_TickDuringUpdateSkipped == ~(timerDue /\ duringUpdate)

=============================================================================
